---- MODULE Spec2Model ----
(***************************************************************************)
(* A model of libstorage's storage service (api/server/services) and of    *)
(* its storage drivers.                                                    *)
(*                                                                         *)
(* Part 1, the storage service: storageService.Init resolves and           *)
(* initialises the driver, makes the unbuffered channel taskExecQueue and  *)
(* starts the single consumer goroutine; storageService.TaskExecute makes  *)
(* a task and starts one hand-off goroutine that sends it on the channel.  *)
(* Spec is its specification, FairSpec adds fair goroutine scheduling.     *)
(*                                                                         *)
(* Part 2, the storage drivers glusterfs, objectivefs and EFS: each driver *)
(* call is one action that records its arguments, its result and the       *)
(* backend calls it issued in `last`.  DriverSpec is their specification.  *)
(*                                                                         *)
(* Part 3, the linux OS driver and the executors: Mounts, Mount, Unmount   *)
(* and Format act on the host's mount table and block device (OsSpec for a *)
(* host whose callers name devices of every kind, BlockSpec for the block  *)
(* device and its content); LocalDevices parses /proc/self/mountinfo       *)
(* (ExecSpec).                                                             *)
(***************************************************************************)
EXTENDS Integers, Sequences, FiniteSets, TLC

\* ------------------------------------------------------------------ bounds

\* The number of TaskExecute calls made on the service.
MaxTasks == 3

TaskIDs == 1..MaxTasks

\* ------------------------------------------------------------ configuration

\* The three configuration keys initStorageDriver reads, in the order read.
ConfigKeys == <<"driver", "libstorage.driver", "libstorage.storage.driver">>

\* Values a key may hold: unset (""), a registered driver, an unknown driver.
ConfigValues == {"", "efs", "nosuch"}

Configs == [{ConfigKeys[i] : i \in 1..Len(ConfigKeys)} -> ConfigValues]

\* gofig.Config.GetString: the value of the key, "" when unset.
GetString(cfg, key) == cfg[key]

\* The drivers that registered themselves (registry.RegisterStorageDriver in
\* each driver's init()).
RegisteredDrivers == {"efs", "glusterfs", "objectivefs"}

\* s.driver before it is bound (a nil types.StorageDriver).
NoDriver == "<nil>"

VARIABLES
    svcPhase,          \* "new" | "ready" (Init returned nil) | "failed" (Init returned an error)
    svcConfig,         \* s.config
    svcDriver,         \* s.driver
    svcErr,            \* the error Init returned ("none" for nil)
    lookupName,        \* the name handed to registry.NewStorageDriver ("" when not consulted)
    registryLookups,   \* calls of registry.NewStorageDriver
    driverInits,       \* calls of driver.Init
    queueMade,         \* s.taskExecQueue is a channel (FALSE: nil)
    sendq,             \* the hand-off goroutines blocked in the send, in arrival order
    consumerPc,        \* "none" | "recv" (at the range receive) | "exec" (inside execTask)
    cur,               \* the task the consumer is executing (0: none)
    nSubmitted,        \* TaskExecute calls that have returned
    taskState,         \* Task.State of each task handle
    handoff,           \* each hand-off goroutine's position
    runs,              \* how often each task's runFunc was started
    startOrder,        \* the tasks in the order their runFunc was started
    nAtRecv            \* nSubmitted when the consumer received the task it is executing

svcVars == <<svcPhase, svcConfig, svcDriver, svcErr, lookupName, registryLookups,
             driverInits, queueMade>>
taskVars == <<sendq, consumerPc, cur, nSubmitted, taskState, handoff, runs,
              startOrder, nAtRecv>>

\* Part 2, the storage drivers.  Strings the drivers take apart or put
\* together (volume names and IDs, device strings) are sequences of
\* characters; "" is <<>>.
VARIABLES
    drv,               \* the driver variant the calls go to ("none": no driver call is made)
    gfsVolumes,        \* glusterfs: d.volumes
    ofsFileSystems,    \* objectivefs: the filesystems the backend holds
    efsFileSystems,    \* EFS: the filesystems the backend holds
    efsMountTargets,   \* EFS: the mount targets the backend holds
    s3Buckets,         \* s3fs: the buckets the backend holds
    ofsObjects,        \* objectivefs: the objects in the filesystems' buckets
    rmPc,              \* objectivefs VolumeRemove in progress: where it is ("idle": none)
    rmVolume,          \*   its volumeID
    rmTruncated,       \*   *resp.IsTruncated of the response the loop tests
    rmDeletables,      \*   the keys in deletables
    rmListCalls,       \*   the ListObjects calls it has issued, counted modulo ListCallsMod
    last               \* the last driver call: its arguments, what it returned, the backend calls it made

s3Vars == <<s3Buckets>>
rmVars == <<rmPc, rmVolume, rmTruncated, rmDeletables, rmListCalls>>
drvVars == <<drv, gfsVolumes, ofsFileSystems, efsFileSystems, efsMountTargets,
             s3Vars, ofsObjects, rmVars, last>>

\* Part 3, the linux OS driver.
VARIABLES
    mountTable,        \* the host's live mount table, a row for each mount
    osLast,            \* the last OS driver call: its arguments, what it returned, the steps it took
    disk,              \* the host's block device: its size and its bytes
    osDevices,         \* the devices the callers of the OS driver name
    mountinfo,         \* the lines of /proc/self/mountinfo as the executors read it
    execLast           \* the last executor call: what it returned and the rows it parsed

execVars == <<mountinfo, execLast>>
osVars == <<mountTable, osLast, disk, osDevices, execVars>>
vars == <<svcVars, taskVars, drvVars, osVars>>

\* --------------------------------------------------------------- the service

\* registry.NewStorageDriver: the constructor registered under the name, or
\* an error when there is none.
NewStorageDriver(name) ==
    IF name \in RegisteredDrivers THEN [err |-> "none", driver |-> name]
    ELSE [err |-> "DriverNotFound", driver |-> NoDriver]

\* A faulty variant of initStorageDriver: the keys are read most specific first.
initStorageDriverReversed(cfg, initOK) ==
    LET n3 == GetString(cfg, "libstorage.storage.driver")
        n2 == IF n3 = "" THEN GetString(cfg, "libstorage.driver") ELSE n3
        driverName == IF n2 = "" THEN GetString(cfg, "driver") ELSE n2
    IN  IF driverName = ""
        THEN [err |-> "MissingDriverName", driver |-> NoDriver, name |-> "",
              lookups |-> 0, inits |-> 0]
        ELSE LET r == NewStorageDriver(driverName)
             IN  IF r.err # "none"
                 THEN [err |-> r.err, driver |-> NoDriver, name |-> driverName,
                       lookups |-> 1, inits |-> 0]
                 ELSE IF ~initOK
                 THEN [err |-> "DriverInitFailed", driver |-> NoDriver,
                       name |-> driverName, lookups |-> 1, inits |-> 1]
                 ELSE [err |-> "none", driver |-> r.driver, name |-> driverName,
                       lookups |-> 1, inits |-> 1]

\* A faulty variant of initStorageDriver: s.driver is bound before driver.Init is
\* called, so a failing driver.Init leaves it bound.
initStorageDriverBindsEarly(cfg, initOK) ==
    LET n1 == GetString(cfg, "driver")
        n2 == IF n1 = "" THEN GetString(cfg, "libstorage.driver") ELSE n1
        driverName == IF n2 = "" THEN GetString(cfg, "libstorage.storage.driver") ELSE n2
    IN  IF driverName = ""
        THEN [err |-> "MissingDriverName", driver |-> NoDriver, name |-> "",
              lookups |-> 0, inits |-> 0]
        ELSE LET r == NewStorageDriver(driverName)
             IN  IF r.err # "none"
                 THEN [err |-> r.err, driver |-> NoDriver, name |-> driverName,
                       lookups |-> 1, inits |-> 0]
                 ELSE IF ~initOK
                 THEN [err |-> "DriverInitFailed", driver |-> r.driver,
                       name |-> driverName, lookups |-> 1, inits |-> 1]
                 ELSE [err |-> "none", driver |-> r.driver, name |-> driverName,
                       lookups |-> 1, inits |-> 1]

\* storageService.initStorageDriver: the driver name is the first non-empty
\* of the three keys; the registry constructs the driver; driver.Init runs;
\* only then s.driver is bound.  initOK is the outcome of driver.Init.
initStorageDriver(cfg, initOK) ==
    LET n1 == GetString(cfg, "driver")
        n2 == IF n1 = "" THEN GetString(cfg, "libstorage.driver") ELSE n1
        driverName == IF n2 = "" THEN GetString(cfg, "libstorage.storage.driver") ELSE n2
    IN  IF driverName = ""
        THEN [err |-> "MissingDriverName", driver |-> NoDriver, name |-> "",
              lookups |-> 0, inits |-> 0]
        ELSE LET r == NewStorageDriver(driverName)
             IN  IF r.err # "none"
                 THEN [err |-> r.err, driver |-> NoDriver, name |-> driverName,
                       lookups |-> 1, inits |-> 0]
                 ELSE IF ~initOK
                 THEN [err |-> "DriverInitFailed", driver |-> NoDriver,
                       name |-> driverName, lookups |-> 1, inits |-> 1]
                 ELSE [err |-> "none", driver |-> r.driver, name |-> driverName,
                       lookups |-> 1, inits |-> 1]

\* storageService.Init: stores the config, runs initStorageDriver and returns
\* its error; on success makes the channel and starts the consumer.
ServiceInit ==
    /\ svcPhase = "new"
    /\ \E cfg \in Configs, initOK \in BOOLEAN :
         LET r == initStorageDriver(cfg, initOK)
         IN  /\ svcConfig' = cfg
             /\ svcDriver' = r.driver
             /\ svcErr' = r.err
             /\ lookupName' = r.name
             /\ registryLookups' = r.lookups
             /\ driverInits' = r.inits
             /\ IF r.err # "none"
                THEN /\ svcPhase' = "failed"
                     /\ queueMade' = FALSE
                     /\ consumerPc' = "none"
                ELSE /\ svcPhase' = "ready"
                     /\ queueMade' = TRUE
                     /\ consumerPc' = "recv"
    /\ UNCHANGED <<sendq, cur, nSubmitted, taskState, handoff, runs, startOrder,
                   nAtRecv, drvVars, osVars>>

\* newStorageServiceTask: a new task handle, not yet running.
newStorageServiceTask == "queued"

\* A faulty variant of TaskExecute: the caller itself sends on the unbuffered channel,
\* so it returns only when the consumer is at its receive.
TaskExecuteSendsInline ==
    /\ svcPhase = "ready"
    /\ nSubmitted < MaxTasks
    /\ consumerPc = "recv"
    /\ sendq = <<>>
    /\ LET t == nSubmitted + 1
       IN  /\ nSubmitted' = t
           /\ taskState' = [taskState EXCEPT ![t] = newStorageServiceTask]
           /\ handoff' = [handoff EXCEPT ![t] = "blocked"]
           /\ sendq' = <<t>>
    /\ UNCHANGED <<osVars, drvVars, svcVars, consumerPc, cur, runs, startOrder, nAtRecv>>

\* storageService.TaskExecute: makes the task, starts the hand-off goroutine
\* (go func() { s.taskExecQueue <- t }()) and returns the handle.  Callers get
\* the service only after Init has returned, with or without an error.
TaskExecute ==
    /\ svcPhase \in {"ready", "failed"}
    /\ nSubmitted < MaxTasks
    /\ LET t == nSubmitted + 1
       IN  /\ nSubmitted' = t
           /\ taskState' = [taskState EXCEPT ![t] = newStorageServiceTask]
           /\ handoff' = [handoff EXCEPT ![t] = "spawned"]
    /\ UNCHANGED <<osVars, drvVars, svcVars, sendq, consumerPc, cur, runs, startOrder, nAtRecv>>

\* A faulty variant of HandoffSend: a non-blocking send (select with a default case)
\* that gives the task up when the consumer is not at its receive.
HandoffSendOrDrop(t) ==
    /\ handoff[t] = "spawned"
    /\ IF ~queueMade
       THEN /\ handoff' = [handoff EXCEPT ![t] = "stuck"]
            /\ UNCHANGED sendq
       ELSE IF consumerPc = "recv" /\ sendq = <<>>
       THEN /\ handoff' = [handoff EXCEPT ![t] = "blocked"]
            /\ sendq' = Append(sendq, t)
       ELSE /\ handoff' = [handoff EXCEPT ![t] = "dropped"]
            /\ UNCHANGED sendq
    /\ UNCHANGED <<osVars, drvVars, svcVars, consumerPc, cur, nSubmitted, taskState, runs,
                   startOrder, nAtRecv>>

\* The hand-off goroutine of task t reaches its send, s.taskExecQueue <- t.
\* On a nil channel (Init failed) the send blocks forever; otherwise the
\* goroutine waits in the channel's queue of senders, which the runtime
\* serves in arrival order.
HandoffSend(t) ==
    /\ handoff[t] = "spawned"
    /\ IF ~queueMade
       THEN /\ handoff' = [handoff EXCEPT ![t] = "stuck"]
            /\ UNCHANGED sendq
       ELSE /\ handoff' = [handoff EXCEPT ![t] = "blocked"]
            /\ sendq' = Append(sendq, t)
    /\ UNCHANGED <<osVars, drvVars, svcVars, consumerPc, cur, nSubmitted, taskState, runs,
                   startOrder, nAtRecv>>

\* execTask, entry: the task is marked running and its runFunc is called on
\* the calling goroutine.
execTaskBegin(t) ==
    /\ taskState' = [taskState EXCEPT ![t] = "running"]
    /\ runs' = [runs EXCEPT ![t] = @ + 1]
    /\ startOrder' = Append(startOrder, t)

\* execTask, exit: the runFunc's result or error is stored on the task.
execTaskEnd(t, ok) ==
    taskState' = [taskState EXCEPT ![t] = IF ok THEN "success" ELSE "error"]

\* A faulty variant of ConsumerRecv: the loop body is `go execTask(t)`, so the
\* consumer is back at its receive while the task runs.
ConsumerRecvSpawnsExec ==
    /\ consumerPc = "recv"
    /\ sendq # <<>>
    /\ LET t == Head(sendq)
       IN  /\ sendq' = Tail(sendq)
           /\ handoff' = [handoff EXCEPT ![t] = "delivered"]
           /\ cur' = t
           /\ execTaskBegin(t)
    /\ nAtRecv' = nSubmitted
    /\ UNCHANGED <<osVars, drvVars, svcVars, consumerPc, nSubmitted>>

\* The consumer's `for t := range s.taskExecQueue`: it receives from the
\* first waiting sender and calls execTask(t).
ConsumerRecv ==
    /\ consumerPc = "recv"
    /\ sendq # <<>>
    /\ LET t == Head(sendq)
       IN  /\ sendq' = Tail(sendq)
           /\ handoff' = [handoff EXCEPT ![t] = "delivered"]
           /\ cur' = t
           /\ consumerPc' = "exec"
           /\ execTaskBegin(t)
    /\ nAtRecv' = nSubmitted
    /\ UNCHANGED <<osVars, drvVars, svcVars, nSubmitted>>

\* A faulty variant of ConsumerNext: the loop ends when a task has failed.
ConsumerNextStopsOnError ==
    /\ consumerPc = "exec"
    /\ \E ok \in BOOLEAN :
         /\ execTaskEnd(cur, ok)
         /\ consumerPc' = IF ok THEN "recv" ELSE "none"
    /\ cur' = 0
    /\ nAtRecv' = 0
    /\ UNCHANGED <<osVars, drvVars, svcVars, sendq, nSubmitted, handoff, runs, startOrder>>

\* execTask(t) returns, whatever the runFunc's outcome, and the loop goes
\* back to its receive.
ConsumerNext ==
    /\ consumerPc = "exec"
    /\ \E ok \in BOOLEAN : execTaskEnd(cur, ok)
    /\ consumerPc' = "recv"
    /\ cur' = 0
    /\ nAtRecv' = 0
    /\ UNCHANGED <<osVars, drvVars, svcVars, sendq, nSubmitted, handoff, runs, startOrder>>

\* --------------------------------------------------------------- the drivers

Drivers == {"glusterfs", "efs", "objectivefs", "s3fs"}

EmptyStr == <<>>

\* Volume names callers pass to VolumeCreate.
VolNames == {EmptyStr, <<"a">>, <<"t", "a">>}

\* A nil []*types.VolumeAttachment, and a non-nil one.
NilAttachments == [nil |-> TRUE, items |-> <<>>]
AttachmentList(items) == [nil |-> FALSE, items |-> items]

\* A nil *types.Volume, and a types.Volume.
NilVolume == [nil |-> TRUE, name |-> EmptyStr, id |-> EmptyStr,
              attachments |-> NilAttachments]
Volume(name, id, atts) == [nil |-> FALSE, name |-> name, id |-> id,
                           attachments |-> atts]

\* context.LocalDevices(ctx): whether the context carries the host's local
\* devices, and the keys (device strings) of their DeviceMap.
NoLocalDevices == [ok |-> FALSE, DeviceMap |-> {}]

\* What a driver call returned and the backend calls it issued, in order.
Result(err, vol, calls) == [err |-> err, vol |-> vol, calls |-> calls]

NoCall == [op |-> "none", arg |-> EmptyStr, attachments |-> FALSE,
           err |-> "none", vol |-> NilVolume, calls |-> <<>>]

Call(op, arg, attachments, r) ==
    [op |-> op, arg |-> arg, attachments |-> attachments,
     err |-> r.err, vol |-> r.vol, calls |-> r.calls]

\* A call whose context may carry local devices: as Call, with what
\* context.LocalDevices(ctx) gave (NoLocalDevices also when the call does not
\* ask for them).
CtxCall(ld, op, arg, attachments, r) ==
    [op |-> op, arg |-> arg, attachments |-> attachments,
     err |-> r.err, vol |-> r.vol, calls |-> r.calls, ld |-> ld]

\* A VolumeRemove call, as Call, with the ordinal among its backend calls of
\* the one the backend failed (0: none): the failAt-th call when the driver
\* issued that many.
RemoveCall(arg, err, calls, failAt) ==
    [op |-> "VolumeRemove", arg |-> arg, attachments |-> FALSE,
     err |-> err, vol |-> NilVolume, calls |-> calls,
     failed |-> IF failAt \in 1..Len(calls) THEN failAt ELSE 0]

\* A faulty variant of mountStatus: the device map is not looked at.
mountStatusAlwaysMounted(ld, dev) == "Exported and Mounted"

\* The status of a device string against the local device map.
mountStatus(ld, dev) ==
    IF dev \in ld.DeviceMap THEN "Exported and Mounted"
    ELSE "Exported and Unmounted"

\* Which backend call of a driver call fails, by its ordinal among at most
\* n calls; 0: none.
FailAts(n) == 0..n

\* ---- glusterfs

\* glusterfs.connectionStringFormatter: the text before and after its one %s.
gfsFormatter == [pre |-> <<"g", ":", "/">>, post |-> EmptyStr]

\* fmt.Sprintf(d.formatter(), volumeID)
gfsDevice(volumeID) == gfsFormatter.pre \o volumeID \o gfsFormatter.post

gfsGetVolumeAttachments(ld, volumeID) ==
    IF volumeID = EmptyStr
    THEN [err |-> "MissingVolumeID", atts |-> NilAttachments]
    ELSE LET dev == gfsDevice(volumeID)
             status == IF ld.ok THEN mountStatus(ld, dev) ELSE "Exported"
         IN  [err |-> "none",
              atts |-> AttachmentList(<<[volumeID |-> volumeID,
                                         instanceID |-> <<"an-unused-id">>,
                                         deviceName |-> dev,
                                         status |-> status]>>)]

\* glusterfs driver.VolumeInspect: the volume is made from the ID as given;
\* d.volumes is not consulted and the ID is checked only when attachments
\* are asked for.
gfsVolumeInspect(ld, volumeID, attachments) ==
    LET r == IF attachments THEN gfsGetVolumeAttachments(ld, volumeID)
             ELSE [err |-> "none", atts |-> NilAttachments]
    IN  IF r.err # "none" THEN Result(r.err, NilVolume, <<>>)
        ELSE Result("none",
                    Volume(volumeID, volumeID,
                           IF Len(r.atts.items) > 0 THEN r.atts
                           ELSE NilAttachments),
                    <<>>)

\* glusterfs driver.VolumeCreate: returns types.ErrNotImplemented at once;
\* the name check and d.volumeAdd after it are never reached.
gfsVolumeCreate(ld, name) == Result("NotImplemented", NilVolume, <<>>)

GlusterfsVolumeInspect ==
    /\ drv = "glusterfs"
    /\ \E volumeID \in VolNames, attachments \in BOOLEAN,
          ld \in {NoLocalDevices, [ok |-> TRUE, DeviceMap |-> {}],
                  [ok |-> TRUE, DeviceMap |-> {gfsDevice(<<"a">>)}]} :
         /\ attachments \/ ld = NoLocalDevices
         /\ last' = CtxCall(ld, "VolumeInspect", volumeID, attachments,
                            gfsVolumeInspect(ld, volumeID, attachments))
    /\ UNCHANGED <<osVars, svcVars, taskVars, s3Vars, ofsObjects, rmVars, drv,
                   gfsVolumes, ofsFileSystems,
                   efsFileSystems, efsMountTargets>>

GlusterfsVolumeCreate ==
    /\ drv = "glusterfs"
    /\ \E name \in VolNames :
         last' = Call("VolumeCreate", name, FALSE,
                      gfsVolumeCreate(NoLocalDevices, name))
    /\ UNCHANGED <<osVars, svcVars, taskVars, s3Vars, ofsObjects, rmVars, drv,
                   gfsVolumes, ofsFileSystems,
                   efsFileSystems, efsMountTargets>>

\* ---- objectivefs

\* objectivefsPrefix
objectivefsPrefix == <<"s", "3", ":", "/", "/">>

\* objectivefs.region
ofsRegion == <<"us-east-1">>

\* A faulty variant of ofsGetVolumeAttachments: a volume whose device is not
\* in the local device map has no attachment.
ofsGetVolumeAttachmentsMountedOnly(ld, volumeID) ==
    IF volumeID = EmptyStr
    THEN [err |-> "MissingVolumeID", atts |-> NilAttachments]
    ELSE LET dev == objectivefsPrefix \o volumeID
         IN  [err |-> "none",
              atts |-> IF ld.ok /\ dev \in ld.DeviceMap
                       THEN AttachmentList(<<[volumeID |-> volumeID,
                                              instanceID |-> ofsRegion,
                                              deviceName |-> dev,
                                              status |-> "Exported and Mounted"]>>)
                       ELSE AttachmentList(<<>>)]

ofsGetVolumeAttachments(ld, volumeID) ==
    IF volumeID = EmptyStr
    THEN [err |-> "MissingVolumeID", atts |-> NilAttachments]
    ELSE LET dev == objectivefsPrefix \o volumeID
             status == IF ld.ok THEN mountStatus(ld, dev) ELSE "Exported"
         IN  [err |-> "none",
              atts |-> AttachmentList(<<[volumeID |-> volumeID,
                                         instanceID |-> ofsRegion,
                                         deviceName |-> dev,
                                         status |-> status]>>)]

\* objectivefs driver.VolumeInspect: an empty ID is refused first; otherwise
\* the volume is made from the ID as given, without asking the backend.
ofsVolumeInspect(ld, volumeID, attachments) ==
    IF volumeID = EmptyStr THEN Result("MissingVolumeID", NilVolume, <<>>)
    ELSE IF attachments
    THEN LET r == ofsGetVolumeAttachments(ld, volumeID)
         IN  IF r.err # "none" THEN Result(r.err, NilVolume, <<>>)
             ELSE Result("none", Volume(volumeID, volumeID, r.atts), <<>>)
    ELSE Result("none", Volume(volumeID, volumeID, NilAttachments), <<>>)

\* objectivefs driver.VolumeCreate: an empty name is refused first; then the
\* admin command `create name` runs (cmdOK: it exited with 0) and the volume
\* is read back with VolumeInspect.
ofsVolumeCreate(ld, name, cmdOK) ==
    IF name = EmptyStr THEN Result("MissingVolumeName", NilVolume, <<>>)
    ELSE IF ~cmdOK THEN Result("CommandFailed", NilVolume, <<"objectivefs create">>)
    ELSE LET r == ofsVolumeInspect(ld, name, FALSE)
         IN  Result(r.err, r.vol, <<"objectivefs create">> \o r.calls)

ObjectivefsVolumeInspect ==
    /\ drv = "objectivefs"
    /\ \E volumeID \in VolNames, attachments \in BOOLEAN,
          ld \in {NoLocalDevices, [ok |-> TRUE, DeviceMap |-> {}],
                  [ok |-> TRUE,
                   DeviceMap |-> {objectivefsPrefix \o <<"a">>}]} :
         /\ attachments \/ ld = NoLocalDevices
         /\ last' = CtxCall(ld, "VolumeInspect", volumeID, attachments,
                            ofsVolumeInspect(ld, volumeID, attachments))
    /\ UNCHANGED <<osVars, svcVars, taskVars, s3Vars, ofsObjects, rmVars, drv,
                   gfsVolumes, ofsFileSystems,
                   efsFileSystems, efsMountTargets>>

\* The create command succeeds only for a filesystem that does not exist yet.
ObjectivefsVolumeCreate ==
    /\ drv = "objectivefs"
    /\ \E name \in VolNames, cmdOK \in BOOLEAN :
         /\ cmdOK => name \notin ofsFileSystems
         /\ LET r == ofsVolumeCreate(NoLocalDevices, name, cmdOK)
            IN  /\ last' = Call("VolumeCreate", name, FALSE, r)
                /\ ofsFileSystems' =
                      IF "objectivefs create" \in {r.calls[i] : i \in 1..Len(r.calls)}
                         /\ cmdOK
                      THEN ofsFileSystems \cup {name}
                      ELSE ofsFileSystems
    /\ UNCHANGED <<osVars, svcVars, taskVars, s3Vars, ofsObjects, rmVars, drv,
                   gfsVolumes, efsFileSystems,
                   efsMountTargets>>

\* The keys of the objects a filesystem keeps in its bucket, the number of
\* keys one ListObjects response holds, and the modulus of rmListCalls.
MaxObjects == 2
PageSize == 1
ListCallsMod == 3
Keys == 1..MaxObjects

ObjectsOf(volumeID, objects) == {o.key : o \in {x \in objects : x.fs = volumeID}}

\* client.ListObjects(params) with params naming only the bucket: the first
\* page of the bucket's keys, and whether more keys follow it.
ListObjects(volumeID, objects) ==
    LET keys == ObjectsOf(volumeID, objects)
    IN  [Contents |-> {k \in keys :
                          Cardinality({j \in keys : j < k}) < PageSize},
         IsTruncated |-> Cardinality(keys) > PageSize]

\* A mounted filesystem writes an object to its bucket (not while the
\* bucket is being removed).
ObjectivefsWrite ==
    /\ drv = "objectivefs"
    /\ rmPc = "idle"
    /\ \E fs \in ofsFileSystems, k \in Keys :
         /\ [fs |-> fs, key |-> k] \notin ofsObjects
         /\ ofsObjects' = ofsObjects \cup {[fs |-> fs, key |-> k]}
    /\ UNCHANGED <<osVars, svcVars, taskVars, s3Vars, rmVars, drv, gfsVolumes,
                   ofsFileSystems, efsFileSystems, efsMountTargets, last>>

\* VolumeRemove returns: the call is recorded and nothing of it remains.
rmReturn(volumeID, err, calls, failAt) ==
    /\ last' = RemoveCall(volumeID, err, calls, failAt)
    /\ rmPc' = "idle"
    /\ rmVolume' = EmptyStr
    /\ rmTruncated' = FALSE
    /\ rmDeletables' = {}
    /\ rmListCalls' = 0

\* objectivefs driver.VolumeRemove, up to its loop: the first ListObjects,
\* whose error ends the call and whose keys go to deletables.  The backend
\* cannot list a bucket that does not exist.
ObjectivefsVolumeRemove ==
    /\ drv = "objectivefs"
    /\ rmPc = "idle"
    /\ \E volumeID \in VolNames, ok \in BOOLEAN :
         /\ volumeID \notin ofsFileSystems => ~ok
         /\ IF ~ok
            THEN rmReturn(volumeID, "BackendError", <<"ListObjects">>, 1)
            ELSE LET resp == ListObjects(volumeID, ofsObjects)
                 IN  /\ rmPc' = "loop"
                     /\ rmVolume' = volumeID
                     /\ rmTruncated' = resp.IsTruncated
                     /\ rmDeletables' = resp.Contents
                     /\ rmListCalls' = 1
                     /\ UNCHANGED last
    /\ UNCHANGED <<osVars, svcVars, taskVars, s3Vars, ofsObjects, drv, gfsVolumes,
                   ofsFileSystems, efsFileSystems, efsMountTargets>>

\* One round of `for *resp.IsTruncated`: the response it makes is a new
\* variable of the loop's body, made with the same params; its error ends
\* the call, its keys go to deletables, and the response the loop tests
\* stays the first one.
ObjectivefsRemoveListAgain ==
    /\ drv = "objectivefs"
    /\ rmPc = "loop"
    /\ rmTruncated
    /\ \E ok \in BOOLEAN :
         IF ~ok
         THEN rmReturn(rmVolume, "BackendError", <<"ListObjects">>, 1)
         ELSE LET resp == ListObjects(rmVolume, ofsObjects)
              IN  /\ rmDeletables' = rmDeletables \cup resp.Contents
                  /\ rmListCalls' = (rmListCalls + 1) % ListCallsMod
                  /\ UNCHANGED <<rmPc, rmVolume, rmTruncated, last>>
    /\ UNCHANGED <<osVars, svcVars, taskVars, s3Vars, ofsObjects, drv, gfsVolumes,
                   ofsFileSystems, efsFileSystems, efsMountTargets>>

\* The rest of objectivefs driver.VolumeRemove, after the loop: DeleteObjects
\* when deletables is not empty, DeleteBucket, WaitUntilBucketNotExists; the
\* first error ends the call.
ofsRemoveFinish(volumeID, deletables, fss, objects, failAt) ==
    LET nDel == IF deletables # {} THEN 1 ELSE 0
        dels == IF deletables # {} THEN <<"DeleteObjects">> ELSE <<>>
        left == {o \in objects : ~(o.fs = volumeID /\ o.key \in deletables)}
    IN  IF nDel = 1 /\ failAt = 1
        THEN [err |-> "BackendError", calls |-> <<"ListObjects">> \o dels,
              fss |-> fss, objects |-> objects]
        ELSE IF failAt = nDel + 1
        THEN [err |-> "BackendError",
              calls |-> <<"ListObjects">> \o dels \o <<"DeleteBucket">>,
              fss |-> fss, objects |-> left]
        ELSE [err |-> IF failAt = nDel + 2 THEN "BackendError" ELSE "none",
              calls |-> <<"ListObjects">> \o dels
                           \o <<"DeleteBucket", "WaitUntilBucketNotExists">>,
              fss |-> fss \ {volumeID}, objects |-> left]

\* The backend refuses to delete a bucket that still holds objects.
ObjectivefsRemoveFinish ==
    /\ drv = "objectivefs"
    /\ rmPc = "loop"
    /\ ~rmTruncated
    /\ \E failAt \in FailAts(3) :
         LET nDel == IF rmDeletables # {} THEN 1 ELSE 0
             r == ofsRemoveFinish(rmVolume, rmDeletables, ofsFileSystems,
                                  ofsObjects, failAt)
         IN  /\ failAt <= nDel + 2
             /\ ObjectsOf(rmVolume, ofsObjects) \ rmDeletables # {}
                   => failAt \in 1..(nDel + 1)
             /\ rmReturn(rmVolume, r.err, r.calls,
                         IF failAt = 0 THEN 0 ELSE failAt + 1)
             /\ ofsFileSystems' = r.fss
             /\ ofsObjects' = r.objects
    /\ UNCHANGED <<osVars, svcVars, taskVars, s3Vars, drv, gfsVolumes,
                   efsFileSystems, efsMountTargets>>

\* ---- EFS

\* efs.tag, and tagDelimiter
efsTag == <<"t">>
tagDelimiter == <<"/">>

\* The IDs the backend gives to new filesystems.
EfsIDs == {<<"fs-1">>, <<"fs-2">>}

\* The subnets instances live in, and the address of a mount target there.
Subnets == {<<"subnet-1">>, <<"subnet-2">>}
IpOf(subnet) == IF subnet = <<"subnet-1">> THEN <<"10.0.0.1">> ELSE <<"10.0.0.2">>

Chars(str) == {str[i] : i \in 1..Len(str)}

RECURSIVE TrimLeft(_, _)
\* strings.TrimLeft: str without its leading characters that are in cutset.
TrimLeft(str, cutset) ==
    IF str = <<>> \/ Head(str) \notin cutset THEN str
    ELSE TrimLeft(Tail(str), cutset)

RECURSIVE SetToSeq(_)
\* The elements of a set in some fixed order (the order the backend lists them).
SetToSeq(S) ==
    IF S = {} THEN <<>>
    ELSE LET x == CHOOSE y \in S : TRUE IN <<x>> \o SetToSeq(S \ {x})

efsGetPrintableName(name) == TrimLeft(name, Chars(efsTag \o tagDelimiter))

efsGetFullVolumeName(name) == efsTag \o tagDelimiter \o name

\* EFS driver.getVolumeAttachments: one attachment for each mount target of
\* the filesystem; nil when there is none.  n: backend calls issued before.
efsGetVolumeAttachments(ld, volumeID, mts, failAt, n) ==
    IF volumeID = EmptyStr
    THEN [err |-> "MissingVolumeID", atts |-> NilAttachments, calls |-> <<>>]
    ELSE IF failAt = n + 1
    THEN [err |-> "BackendError", atts |-> NilAttachments,
          calls |-> <<"DescribeMountTargets">>]
    ELSE LET targets == SetToSeq({m \in mts : m.fs = volumeID})
             att(m) == LET dev == IF ld.ok THEN m.ip \o <<":">> \o <<"/">>
                                  ELSE EmptyStr
                       IN  [volumeID |-> m.fs,
                            instanceID |-> m.subnet,
                            deviceName |-> dev,
                            status |-> IF ld.ok THEN mountStatus(ld, dev)
                                       ELSE "Exported"]
         IN  [err |-> "none",
              atts |-> IF targets = <<>> THEN NilAttachments
                       ELSE AttachmentList([i \in 1..Len(targets) |-> att(targets[i])]),
              calls |-> <<"DescribeMountTargets">>]

\* EFS driver.VolumeInspect: DescribeFileSystems is called with the ID as
\* given; the first filesystem of the answer becomes the volume, and an empty
\* answer is types.ErrNotFound.  A filesystem without a Name tag has a nil
\* Name, which the driver dereferences.
efsVolumeInspect(ld, volumeID, attachments, fss, mts, failAt, n) ==
    IF failAt = n + 1
    THEN Result("BackendError", NilVolume, <<"DescribeFileSystems">>)
    ELSE LET found == SetToSeq({f \in fss : f.id = volumeID})
         IN  IF found = <<>>
             THEN Result("NotFound", NilVolume, <<"DescribeFileSystems">>)
             ELSE IF ~found[1].tagged
             THEN Result("panic", NilVolume, <<"DescribeFileSystems">>)
             ELSE LET fs == found[1]
                      r == IF attachments
                           THEN efsGetVolumeAttachments(ld, fs.id, mts, failAt, n + 1)
                           ELSE [err |-> "none", atts |-> NilAttachments,
                                 calls |-> <<>>]
                  IN  IF r.err # "none"
                      THEN Result(r.err, NilVolume,
                                  <<"DescribeFileSystems">> \o r.calls)
                      ELSE Result("none",
                                  Volume(efsGetPrintableName(fs.name), fs.id,
                                         IF Len(r.atts.items) > 0 THEN r.atts
                                         ELSE NilAttachments),
                                  <<"DescribeFileSystems">> \o r.calls)

\* The filesystems after CreateFileSystem and CreateTags, as far as they got.
efsAfterCreate(name, newID, fss, failAt) ==
    IF failAt = 1 THEN fss
    ELSE fss \cup {[id |-> newID, token |-> name, tagged |-> failAt # 2,
                    name |-> IF failAt # 2 THEN efsGetFullVolumeName(name)
                             ELSE EmptyStr]}

\* EFS driver.VolumeCreate: CreateFileSystem with the name as creation token,
\* CreateTags with the full name, then the read-back with VolumeInspect.
\* There is no check of the name.
efsVolumeCreate(ld, name, newID, fss, mts, failAt) ==
    IF failAt = 1
    THEN Result("BackendError", NilVolume, <<"CreateFileSystem">>)
    ELSE IF failAt = 2
    THEN Result("BackendError", NilVolume, <<"CreateFileSystem", "CreateTags">>)
    ELSE LET r == efsVolumeInspect(ld, newID, FALSE,
                                   efsAfterCreate(name, newID, fss, failAt),
                                   mts, failAt, 2)
         IN  Result(r.err, r.vol, <<"CreateFileSystem", "CreateTags">> \o r.calls)

\* A faulty variant of efsVolumeRemove: the error of a DeleteMountTarget is
\* dropped and the call goes on.
efsVolumeRemoveIgnoresError(volumeID, fss, mts, failAt) ==
    LET targets == SetToSeq({m \in mts : m.fs = volumeID})
        k == Len(targets)
        dels == [i \in 1..k |-> "DeleteMountTarget"]
    IN  IF failAt = 1
        THEN [err |-> "BackendError", calls |-> <<"DescribeMountTargets">>,
              fss |-> fss, mts |-> mts]
        ELSE [err |-> IF failAt = k + 2 THEN "BackendError" ELSE "none",
              calls |-> <<"DescribeMountTargets">> \o dels \o <<"DeleteFileSystem">>,
              fss |-> IF failAt = k + 2 THEN fss
                      ELSE {f \in fss : f.id # volumeID},
              mts |-> mts \ {targets[i] : i \in (1..k) \ {failAt - 1}}]

\* EFS driver.VolumeRemove: DescribeMountTargets, DeleteMountTarget for each
\* target, then DeleteFileSystem; the first error ends the call.
efsVolumeRemove(volumeID, fss, mts, failAt) ==
    LET targets == SetToSeq({m \in mts : m.fs = volumeID})
        k == Len(targets)
        deleted == IF failAt \in 2..(k + 1) THEN failAt - 2 ELSE k
        issued == IF failAt \in 2..(k + 1) THEN failAt - 1 ELSE k
        dels == [i \in 1..issued |-> "DeleteMountTarget"]
    IN  IF failAt = 1
        THEN [err |-> "BackendError", calls |-> <<"DescribeMountTargets">>,
              fss |-> fss, mts |-> mts]
        ELSE IF failAt \in 2..(k + 1)
        THEN [err |-> "BackendError",
              calls |-> <<"DescribeMountTargets">> \o dels,
              fss |-> fss,
              mts |-> mts \ {targets[i] : i \in 1..deleted}]
        ELSE [err |-> IF failAt = k + 2 THEN "BackendError" ELSE "none",
              calls |-> <<"DescribeMountTargets">> \o dels \o <<"DeleteFileSystem">>,
              fss |-> IF failAt = k + 2 THEN fss
                      ELSE {f \in fss : f.id # volumeID},
              mts |-> mts \ {targets[i] : i \in 1..deleted}]

\* The mount target CreateMountTarget makes: the backend numbers the targets
\* of one filesystem in one subnet, so that a second one is a different one.
newMountTarget(fs, subnet, mts) ==
    [fs |-> fs, subnet |-> subnet, ip |-> IpOf(subnet),
     n |-> 1 + Cardinality({m \in mts : m.fs = fs /\ m.subnet = subnet})]

\* A faulty variant of efsVolumeAttach: the mount target is created without
\* looking at the volume's attachments.
efsVolumeAttachAlwaysCreates(ld, volumeID, subnet, instOK, fss, mts, failAt) ==
    LET r == efsVolumeInspect(ld, volumeID, TRUE, fss, mts, failAt, 0)
        n == Len(r.calls)
    IN  IF r.err # "none"
        THEN [err |-> r.err, vol |-> NilVolume, calls |-> r.calls, mts |-> mts]
        ELSE IF ~instOK
        THEN [err |-> "InstanceInspectFailed", vol |-> NilVolume,
              calls |-> r.calls, mts |-> mts]
        ELSE IF failAt = n + 1
        THEN [err |-> "BackendError", vol |-> NilVolume,
              calls |-> r.calls \o <<"CreateMountTarget">>, mts |-> mts]
        ELSE [err |-> "none", vol |-> r.vol,
              calls |-> r.calls \o <<"CreateMountTarget">>,
              mts |-> mts \cup {newMountTarget(r.vol.id, subnet, mts)}]

\* EFS driver.VolumeAttach: the volume is inspected with its attachments;
\* when none of them is of the caller's subnet, a mount target is created
\* there.  instOK: InstanceInspect succeeded.
efsVolumeAttach(ld, volumeID, subnet, instOK, fss, mts, failAt) ==
    LET r == efsVolumeInspect(ld, volumeID, TRUE, fss, mts, failAt, 0)
        n == Len(r.calls)
        mine == {i \in 1..Len(r.vol.attachments.items) :
                    r.vol.attachments.items[i].instanceID = subnet}
    IN  IF r.err # "none"
        THEN [err |-> r.err, vol |-> NilVolume, calls |-> r.calls, mts |-> mts]
        ELSE IF ~instOK
        THEN [err |-> "InstanceInspectFailed", vol |-> NilVolume,
              calls |-> r.calls, mts |-> mts]
        ELSE IF mine # {}
        THEN [err |-> "none", vol |-> r.vol, calls |-> r.calls, mts |-> mts]
        ELSE IF failAt = n + 1
        THEN [err |-> "BackendError", vol |-> NilVolume,
              calls |-> r.calls \o <<"CreateMountTarget">>, mts |-> mts]
        ELSE [err |-> "none", vol |-> r.vol,
              calls |-> r.calls \o <<"CreateMountTarget">>,
              mts |-> mts \cup {newMountTarget(r.vol.id, subnet, mts)}]

\* The local devices a context may carry on an EFS instance.
EfsLocalDevices ==
    {NoLocalDevices, [ok |-> TRUE, DeviceMap |-> {}],
     [ok |-> TRUE, DeviceMap |-> {IpOf(<<"subnet-1">>) \o <<":">> \o <<"/">>}]}

EfsVolumeInspect ==
    /\ drv = "efs"
    /\ \E volumeID \in {EmptyStr} \cup EfsIDs, attachments \in BOOLEAN,
          ld \in EfsLocalDevices, failAt \in FailAts(2) :
         /\ attachments \/ ld = NoLocalDevices
         /\ last' = CtxCall(ld, "VolumeInspect", volumeID, attachments,
                            efsVolumeInspect(ld, volumeID, attachments,
                                             efsFileSystems, efsMountTargets,
                                             failAt, 0))
    /\ UNCHANGED <<osVars, svcVars, taskVars, s3Vars, ofsObjects, rmVars, drv,
                   gfsVolumes, ofsFileSystems,
                   efsFileSystems, efsMountTargets>>

\* The backend refuses an empty creation token and a token already in use,
\* and gives a new filesystem an ID not in use.
EfsVolumeCreate ==
    /\ drv = "efs"
    /\ \E name \in VolNames, failAt \in FailAts(3), newID \in EfsIDs :
         /\ newID \notin {f.id : f \in efsFileSystems}
         /\ (name = EmptyStr \/ name \in {f.token : f \in efsFileSystems})
               => failAt = 1
         /\ last' = Call("VolumeCreate", name, FALSE,
                         efsVolumeCreate(NoLocalDevices, name, newID,
                                         efsFileSystems, efsMountTargets, failAt))
         /\ efsFileSystems' = efsAfterCreate(name, newID, efsFileSystems, failAt)
    /\ UNCHANGED <<osVars, svcVars, taskVars, s3Vars, ofsObjects, rmVars, drv,
                   gfsVolumes, ofsFileSystems,
                   efsMountTargets>>

EfsVolumeRemove ==
    /\ drv = "efs"
    /\ \E volumeID \in {EmptyStr} \cup EfsIDs,
          failAt \in FailAts(Cardinality(Subnets) + 2) :
         LET r == efsVolumeRemove(volumeID, efsFileSystems, efsMountTargets, failAt)
         IN  /\ (volumeID \notin {f.id : f \in efsFileSystems}) => failAt = 1
             /\ last' = RemoveCall(volumeID, r.err, r.calls, failAt)
             /\ efsFileSystems' = r.fss
             /\ efsMountTargets' = r.mts
    /\ UNCHANGED <<osVars, svcVars, taskVars, s3Vars, ofsObjects, rmVars, drv,
                   gfsVolumes, ofsFileSystems>>

EfsVolumeAttach ==
    /\ drv = "efs"
    /\ \E volumeID \in {EmptyStr} \cup EfsIDs, subnet \in Subnets,
          instOK \in BOOLEAN, ld \in EfsLocalDevices, failAt \in FailAts(3) :
         LET r == efsVolumeAttach(ld, volumeID, subnet, instOK,
                                  efsFileSystems, efsMountTargets, failAt)
         IN  /\ last' = CtxCall(ld, "VolumeAttach", volumeID, TRUE,
                                Result(r.err, r.vol, r.calls))
             /\ efsMountTargets' = r.mts
    /\ UNCHANGED <<osVars, svcVars, taskVars, s3Vars, ofsObjects, rmVars, drv,
                   gfsVolumes, ofsFileSystems,
                   efsFileSystems>>

\* ---- s3fs

\* s3fs.tag, and the s3fs package's tagDelimiter
s3fsTag == <<"t">>
s3fsTagDelimiter == <<"-", "-">>

\* Volume names and IDs callers pass to the s3fs driver: those of the other
\* drivers and one that begins with the tag and the delimiter.
S3Names == VolNames \cup {s3fsTag \o s3fsTagDelimiter \o <<"a">>}

\* strings.TrimPrefix: str without the leading prefix, str itself when it
\* does not begin with prefix.
TrimPrefix(str, prefix) ==
    IF Len(str) >= Len(prefix) /\ SubSeq(str, 1, Len(prefix)) = prefix
    THEN SubSeq(str, Len(prefix) + 1, Len(str))
    ELSE str

s3fsGetPrintableName(name) == TrimPrefix(name, s3fsTag \o s3fsTagDelimiter)

\* s3fs driver.getVolumeAttachments: an empty ID is refused, any other ID
\* has no attachments (nil).
s3fsGetVolumeAttachments(volumeID) ==
    IF volumeID = EmptyStr
    THEN [err |-> "MissingVolumeID", atts |-> NilAttachments]
    ELSE [err |-> "none", atts |-> NilAttachments]

\* s3fs driver.VolumeInspect: HeadBucket with the ID as given, whose error
\* (a failed call, or no such bucket) is returned as it is; the volume's
\* Name and ID are both the printable name of the ID.
s3fsVolumeInspect(volumeID, attachments, buckets, failAt, n) ==
    IF failAt = n + 1 \/ volumeID \notin buckets
    THEN Result("BackendError", NilVolume, <<"HeadBucket">>)
    ELSE LET r == IF attachments THEN s3fsGetVolumeAttachments(volumeID)
                  ELSE [err |-> "none", atts |-> NilAttachments]
         IN  IF r.err # "none" THEN Result(r.err, NilVolume, <<"HeadBucket">>)
             ELSE Result("none",
                         Volume(s3fsGetPrintableName(volumeID),
                                s3fsGetPrintableName(volumeID),
                                IF Len(r.atts.items) > 0 THEN r.atts
                                ELSE NilAttachments),
                         <<"HeadBucket">>)

\* The buckets after CreateBucket, when it succeeded.
s3fsAfterCreate(name, buckets, failAt) ==
    IF failAt = 1 THEN buckets ELSE buckets \cup {name}

\* s3fs driver.VolumeCreate: CreateBucket with the name as given,
\* WaitUntilBucketExists, then the read-back with VolumeInspect.  There is
\* no check of the name.
s3fsVolumeCreate(name, buckets, failAt) ==
    IF failAt = 1
    THEN Result("BackendError", NilVolume, <<"CreateBucket">>)
    ELSE IF failAt = 2
    THEN Result("BackendError", NilVolume,
                <<"CreateBucket", "WaitUntilBucketExists">>)
    ELSE LET r == s3fsVolumeInspect(name, FALSE,
                                    s3fsAfterCreate(name, buckets, failAt),
                                    failAt, 2)
         IN  Result(r.err, r.vol,
                    <<"CreateBucket", "WaitUntilBucketExists">> \o r.calls)

S3fsVolumeInspect ==
    /\ drv = "s3fs"
    /\ \E volumeID \in S3Names, attachments \in BOOLEAN, failAt \in FailAts(1) :
         last' = Call("VolumeInspect", volumeID, attachments,
                      s3fsVolumeInspect(volumeID, attachments, s3Buckets,
                                        failAt, 0))
    /\ UNCHANGED <<osVars, svcVars, taskVars, drv, gfsVolumes, ofsFileSystems,
                   efsFileSystems, efsMountTargets, s3Vars, ofsObjects, rmVars>>

\* The backend refuses an empty bucket name and the name of a bucket that
\* exists.
S3fsVolumeCreate ==
    /\ drv = "s3fs"
    /\ \E name \in S3Names, failAt \in FailAts(3) :
         /\ (name = EmptyStr \/ name \in s3Buckets) => failAt = 1
         /\ last' = Call("VolumeCreate", name, FALSE,
                         s3fsVolumeCreate(name, s3Buckets, failAt))
         /\ s3Buckets' = s3fsAfterCreate(name, s3Buckets, failAt)
    /\ UNCHANGED <<osVars, svcVars, taskVars, drv, gfsVolumes, ofsFileSystems,
                   efsFileSystems, efsMountTargets, ofsObjects, rmVars>>

\* ---- snapshot operations

SnapshotOps == {"VolumeCreateFromSnapshot", "VolumeCopy", "VolumeSnapshot",
                "Snapshots", "SnapshotInspect", "SnapshotCopy", "SnapshotRemove"}

\* The snapshot operations, which read the same in the glusterfs, EFS,
\* objectivefs and s3fs drivers: VolumeCreateFromSnapshot, VolumeCopy and
\* VolumeSnapshot return types.ErrNotImplemented; Snapshots, SnapshotInspect
\* and SnapshotCopy return nil, nil and SnapshotRemove returns nil.
snapshotOperation(op) ==
    IF op \in {"VolumeCreateFromSnapshot", "VolumeCopy", "VolumeSnapshot"}
    THEN Result("NotImplemented", NilVolume, <<>>)
    ELSE Result("none", NilVolume, <<>>)

SnapshotOperation ==
    /\ drv \in Drivers
    /\ \E op \in SnapshotOps, id \in VolNames :
         last' = Call(op, id, FALSE, snapshotOperation(op))
    /\ UNCHANGED <<osVars, svcVars, taskVars, drv, gfsVolumes, ofsFileSystems,
                   efsFileSystems, efsMountTargets, s3Vars, ofsObjects, rmVars>>

\* ------------------------------------------------------ the linux OS driver

\* The rows the mount table may hold at most.
MaxMounts == 2

\* Device strings and mount points callers pass: an object-filesystem
\* device, a network export, a string with a colon that is no object URI,
\* and a block device.
Devices == {<<"s", "3", ":", "/", "/", "b">>, <<"h", ":", "/", "e">>,
            <<"s", "3", ":", "/">>, <<"/", "d">>}
MountPoints == {<<"/", "m">>, <<"/", "n">>}

\* The block device among them.
BlockDevice == <<"/", "d">>

\* strings.Contains
Contains(str, sub) ==
    \E i \in 1..(Len(str) - Len(sub) + 1) : SubSeq(str, i, i + Len(sub) - 1) = sub

isNfsDevice(device) == Contains(device, <<":">>)

isObjectivefsDevice(device) == Contains(device, <<"s", "3", ":", "/", "/">>)

\* getMounts: the rows of the live mount table in their order, or an error
\* when the table cannot be read.
getMounts(table, tableOK) ==
    IF tableOK THEN [err |-> "none", mounts |-> table]
    ELSE [err |-> "MountTableError", mounts |-> <<>>]

\* A faulty variant of osMounts: a row matches only when both its mount
\* point and its source are the ones given.
osMountsMatchesBoth(table, tableOK, deviceName, mountPoint) ==
    LET r == getMounts(table, tableOK)
        Match(m) == m.MountPoint = mountPoint /\ m.Source = deviceName
    IN  IF r.err # "none" THEN [err |-> r.err, rows |-> <<>>]
        ELSE IF mountPoint = EmptyStr /\ deviceName = EmptyStr
        THEN [err |-> "none", rows |-> r.mounts]
        ELSE IF mountPoint # EmptyStr /\ deviceName # EmptyStr
        THEN [err |-> "UsageError", rows |-> <<>>]
        ELSE [err |-> "none", rows |-> SelectSeq(r.mounts, Match)]

\* linux driver.Mounts
osMounts(table, tableOK, deviceName, mountPoint) ==
    LET r == getMounts(table, tableOK)
        Match(m) == m.MountPoint = mountPoint \/ m.Source = deviceName
    IN  IF r.err # "none" THEN [err |-> r.err, rows |-> <<>>]
        ELSE IF mountPoint = EmptyStr /\ deviceName = EmptyStr
        THEN [err |-> "none", rows |-> r.mounts]
        ELSE IF mountPoint # EmptyStr /\ deviceName # EmptyStr
        THEN [err |-> "UsageError", rows |-> <<>>]
        ELSE [err |-> "none", rows |-> SelectSeq(r.mounts, Match)]

\* The driver's configuration (configRegistration's defaults): the data
\* directory of a mount and its mode, 0700.
volumeRootPath == <<"/", "d", "a", "t", "a">>

fileModeMountPath == 448

volumeMountPath(target) == target \o volumeRootPath

\* The signatures probeFsType looks for, in its order.  \123\357 are the
\* bytes 0x53 0xEF.
probes ==
    <<[fsName |-> "btrfs",
       magic |-> <<"_", "B", "H", "R", "f", "S", "_", "M">>, offset |-> 65600],
      [fsName |-> "ext4", magic |-> <<"\\123", "\\357">>, offset |-> 1080],
      [fsName |-> "xfs", magic |-> <<"X", "F", "S", "B">>, offset |-> 0]>>

\* The bytes probeFsType asks for: the largest offset + len(magic).
maxLen ==
    LET End(i) == probes[i].offset + Len(probes[i].magic)
        last_ == CHOOSE i \in 1..Len(probes) : \A j \in 1..Len(probes) : End(j) <= End(i)
    IN  End(last_)

\* A block device is its size in bytes and its bytes; `bytes` holds the
\* ones that are not zero.  Image(size, names) is the device of that size
\* that carries the magic of each filesystem in names at its offset, as far
\* as the device reaches.
Image(size, names) ==
    LET P == {i \in 1..Len(probes) : probes[i].fsName \in names}
        Span(i) == {o \in probes[i].offset..(probes[i].offset + Len(probes[i].magic) - 1) :
                       o < size}
        At == UNION {Span(i) : i \in P}
    IN  [size |-> size,
         bytes |-> [o \in At |->
                      LET i == CHOOSE i \in P : o \in Span(i)
                      IN  probes[i].magic[o - probes[i].offset + 1]]]

\* The block devices of the host: an empty one, one of four bytes that
\* begins with XFSB, and devices as large as the probe's window that are
\* blank, carry one signature, or carry those of ext4 and xfs both.
Disks ==
    {Image(0, {}), Image(4, {"xfs"}), Image(maxLen, {}), Image(maxLen, {"xfs"}),
     Image(maxLen, {"ext4"}), Image(maxLen, {"btrfs"}),
     Image(maxLen, {"ext4", "xfs"})}

\* How os.Open and file.Read fare on the device.
IOs == {"ok", "openError", "readError"}

\* buffer[offset : offset+n] after file.Read has put l bytes of the device
\* into the zeroed buffer.
Slice(device, l, offset, n) ==
    [k \in 1..n |->
        LET o == offset + k - 1
        IN  IF o < l /\ o \in DOMAIN device.bytes THEN device.bytes[o] ELSE "\\0"]

\* A faulty variant of probeFsType: the number of bytes read is not looked
\* at.
probeFsTypeAnyLength(device, io) ==
    IF io = "openError" THEN [fsType |-> "", err |-> "OpenError"]
    ELSE IF io = "readError" THEN [fsType |-> "", err |-> "ReadError"]
    ELSE IF device.size = 0 THEN [fsType |-> "", err |-> "EOF"]
    ELSE LET l == IF device.size < maxLen THEN device.size ELSE maxLen
             Hit(i) == probes[i].magic =
                          Slice(device, l, probes[i].offset, Len(probes[i].magic))
             hits == {i \in 1..Len(probes) : Hit(i)}
         IN  IF hits = {} THEN [fsType |-> "", err |-> "UnknownFileSystem"]
             ELSE [fsType |-> probes[CHOOSE i \in hits : \A j \in hits : i <= j].fsName,
                   err |-> "none"]

\* probeFsType: opens the device and reads maxLen bytes of it with one Read
\* (which returns io.EOF when there is none); fewer bytes than maxLen are
\* an error; the first signature of probes found in the buffer names the
\* filesystem, and none is errUnknownFileSystem.
probeFsType(device, io) ==
    IF io = "openError" THEN [fsType |-> "", err |-> "OpenError"]
    ELSE IF io = "readError" THEN [fsType |-> "", err |-> "ReadError"]
    ELSE IF device.size = 0 THEN [fsType |-> "", err |-> "EOF"]
    ELSE LET l == IF device.size < maxLen THEN device.size ELSE maxLen
             Hit(i) == probes[i].magic =
                          Slice(device, l, probes[i].offset, Len(probes[i].magic))
             hits == {i \in 1..Len(probes) : Hit(i)}
         IN  IF l # maxLen THEN [fsType |-> "", err |-> "DetectError"]
             ELSE IF hits = {} THEN [fsType |-> "", err |-> "UnknownFileSystem"]
             ELSE [fsType |-> probes[CHOOSE i \in hits : \A j \in hits : i <= j].fsName,
                   err |-> "none"]

\* What the host does to a Mount call: the configured passphrase, whether
\* the mount command exits with 0 and whether it then has mounted, whether
\* the mount table can be read, how reading the device fares, whether the
\* mount call succeeds, whether os.MkdirAll and os.Chmod succeed (os.Chmod
\* fails on a directory that could not be made).
Passphrases == {EmptyStr, <<"p">>, <<"q">>}

MountEnvs ==
    {e \in [passphrase : Passphrases, cmdOK : BOOLEAN,
            cmdMounts : BOOLEAN, tableOK : BOOLEAN, io : IOs, mountOK : BOOLEAN,
            mkdirOK : BOOLEAN, chmodOK : BOOLEAN] :
        e.chmodOK => e.mkdirOK}

\* The outcomes each path of Mount meets; an outcome the path does not get
\* to (it is not on the path, or a step before it has failed) is left at
\* one value.
ObjectEnvs ==
    {e \in MountEnvs :
        /\ e.io = "ok" /\ e.mountOK
        /\ e.passphrase = EmptyStr => e.cmdOK
        /\ ~e.cmdOK \/ e.passphrase = EmptyStr =>
              e.cmdMounts /\ e.tableOK /\ e.chmodOK
        /\ ~(e.cmdMounts /\ e.tableOK) => e.chmodOK}
NfsEnvs ==
    {e \in MountEnvs :
        /\ e.passphrase = <<"p">> /\ e.cmdMounts /\ e.tableOK
        /\ e.io = "ok" /\ e.mountOK
        /\ ~e.cmdOK => e.chmodOK}
BlockEnvs ==
    {e \in MountEnvs :
        /\ e.passphrase = <<"p">> /\ e.cmdOK /\ e.cmdMounts /\ e.tableOK
        /\ e.io # "ok" => e.mountOK /\ e.chmodOK
        /\ ~e.mountOK => e.chmodOK}

MountEnvsOf(deviceName) ==
    IF isObjectivefsDevice(deviceName) THEN ObjectEnvs
    ELSE IF isNfsDevice(deviceName) THEN NfsEnvs
    ELSE BlockEnvs

\* types.DeviceMountOpts; only the block-device path reads it.
DeviceMountOpts ==
    [MountOptions : {EmptyStr, <<"r", "o">>}, MountLabel : {EmptyStr, <<"l">>}]

MountOptsOf(deviceName) ==
    IF isNfsDevice(deviceName)
    THEN {[MountOptions |-> EmptyStr, MountLabel |-> EmptyStr]}
    ELSE DeviceMountOpts

\* The mount table with a mount of device at target added.
Mounted(table, device, target) ==
    Append(table, [Source |-> device, MountPoint |-> target])

\* mounted(target): whether the live mount table has a row for target.
mounted(table, tableOK, target) ==
    LET r == getMounts(table, tableOK)
    IN  [err |-> r.err,
         mounted |-> \E i \in 1..Len(r.mounts) : r.mounts[i].MountPoint = target]

\* No child process, no option string, no data directory.
NoChild == [ran |-> FALSE, args |-> <<>>, env |-> <<>>, stdin |-> EmptyStr,
            setsid |-> FALSE, setctty |-> FALSE]
NoOptions == <<"-">>
NoDir == [path |-> EmptyStr, exists |-> FALSE, mode |-> 0]

\* A faulty variant of objectivefsCommand: the passphrase is an argument of
\* the command.
objectivefsCommandPassphraseArg(device, target, p) ==
    [ran |-> TRUE,
     args |-> <<"mount", "-t", "objectivefs", "-o", p, device, target>>,
     env |-> <<>>, stdin |-> <<>>, setsid |-> TRUE, setctty |-> FALSE]

\* The child process objectivefsMount runs: exec.Command("mount", "-t",
\* "objectivefs", device, target) with the passphrase and a newline as its
\* standard input, no Env of its own, Setsid and no Setctty.
objectivefsCommand(device, target, p) ==
    [ran |-> TRUE,
     args |-> <<"mount", "-t", "objectivefs", device, target>>,
     env |-> <<>>, stdin |-> p \o <<"\n">>, setsid |-> TRUE, setctty |-> FALSE]

\* A faulty variant of objectivefsMount: the mount table is not looked up
\* after the command.
objectivefsMountUnverified(device, target, env, table) ==
    IF env.passphrase = EmptyStr
    THEN [err |-> "MissingLicense", calls |-> <<"objectivefsMount">>,
          table |-> table, child |-> NoChild, options |-> NoOptions,
          fsType |-> ""]
    ELSE IF ~env.cmdOK
    THEN [err |-> "MountFailed",
          calls |-> <<"objectivefsMount", "mount -t objectivefs">>,
          table |-> table, options |-> NoOptions, fsType |-> "",
          child |-> objectivefsCommand(device, target, env.passphrase)]
    ELSE [err |-> "none",
          calls |-> <<"objectivefsMount", "mount -t objectivefs">>,
          table |-> IF env.cmdMounts THEN Mounted(table, device, target)
                    ELSE table,
          options |-> NoOptions, fsType |-> "",
          child |-> objectivefsCommand(device, target, env.passphrase)]

\* linux driver.objectivefsMount: without a passphrase it fails before the
\* command runs; the command's failure, a failed lookup of the mount table
\* and a target that is not mounted are errors.
objectivefsMount(device, target, env, table) ==
    IF env.passphrase = EmptyStr
    THEN [err |-> "MissingLicense", calls |-> <<"objectivefsMount">>,
          table |-> table, child |-> NoChild, options |-> NoOptions,
          fsType |-> ""]
    ELSE IF ~env.cmdOK
    THEN [err |-> "MountFailed",
          calls |-> <<"objectivefsMount", "mount -t objectivefs">>,
          table |-> table, options |-> NoOptions, fsType |-> "",
          child |-> objectivefsCommand(device, target, env.passphrase)]
    ELSE LET after == IF env.cmdMounts THEN Mounted(table, device, target)
                      ELSE table
             m == mounted(after, env.tableOK, target)
         IN  [err |-> IF m.err # "none" THEN "VerifyFailed"
                      ELSE IF ~m.mounted THEN "NotMounted" ELSE "none",
              calls |-> <<"objectivefsMount", "mount -t objectivefs", "mounted">>,
              table |-> after, options |-> NoOptions, fsType |-> "",
              child |-> objectivefsCommand(device, target, env.passphrase)]

\* linux driver.nfsMount
nfsMount(device, target, env, table) ==
    IF ~env.cmdOK
    THEN [err |-> "MountFailed", calls |-> <<"nfsMount", "mount">>,
          table |-> table, child |-> NoChild, options |-> NoOptions,
          fsType |-> ""]
    ELSE [err |-> "none", calls |-> <<"nfsMount", "mount">>,
          table |-> Mounted(table, device, target), child |-> NoChild,
          options |-> NoOptions,
          fsType |-> ""]

nouuid == <<"n", "o", "u", "u", "i", "d">>

\* The option string of the block-device path: opts.MountOptions, a comma
\* and opts.MountLabel; for xfs it is opts.MountLabel and ",nouuid".
mountOptions(fsType, opts) ==
    IF fsType = "xfs" THEN opts.MountLabel \o <<",">> \o nouuid
    ELSE opts.MountOptions \o <<",">> \o opts.MountLabel

\* The block-device path of linux driver.Mount: probeFsType, whose error
\* ends the call, then the mount call with the option string.
blockMount(device, target, opts, env, table, disk_) ==
    LET p == probeFsType(disk_, env.io)
    IN  IF p.err # "none"
        THEN [err |-> p.err, calls |-> <<"probeFsType">>, table |-> table,
              child |-> NoChild, options |-> NoOptions, fsType |-> ""]
        ELSE IF ~env.mountOK
        THEN [err |-> "MountFailed", calls |-> <<"probeFsType", "mount()">>,
              table |-> table, child |-> NoChild,
              options |-> mountOptions(p.fsType, opts), fsType |-> p.fsType]
        ELSE [err |-> "none", calls |-> <<"probeFsType", "mount()">>,
              table |-> Mounted(table, device, target), child |-> NoChild,
              options |-> mountOptions(p.fsType, opts), fsType |-> p.fsType]

\* After a mount that succeeded Mount calls os.MkdirAll and os.Chmod on the
\* data directory, does not look at what they return, and returns nil.  A
\* directory that os.MkdirAll could not make does not exist; one whose mode
\* os.Chmod could not set is one that existed with another mode, shown as 0.
mountDone(r, target, env) ==
    IF r.err # "none"
    THEN [err |-> r.err, calls |-> r.calls, table |-> r.table,
          child |-> r.child, options |-> r.options, fsType |-> r.fsType,
          dir |-> NoDir]
    ELSE [err |-> "none",
          calls |-> r.calls \o <<"MkdirAll", "Chmod">>, table |-> r.table,
          child |-> r.child, options |-> r.options, fsType |-> r.fsType,
          dir |-> [path |-> volumeMountPath(target), exists |-> env.mkdirOK,
                   mode |-> IF env.chmodOK THEN fileModeMountPath ELSE 0]]

\* A faulty variant of osMount: the colon is looked for first.
osMountNfsFirst(deviceName, mountPoint, opts, env, table, disk_) ==
    IF isNfsDevice(deviceName)
    THEN mountDone(nfsMount(deviceName, mountPoint, env, table), mountPoint, env)
    ELSE IF isObjectivefsDevice(deviceName)
    THEN mountDone(objectivefsMount(deviceName, mountPoint, env, table),
                   mountPoint, env)
    ELSE mountDone(blockMount(deviceName, mountPoint, opts, env, table, disk_),
                   mountPoint, env)

\* linux driver.Mount
osMount(deviceName, mountPoint, opts, env, table, disk_) ==
    IF isObjectivefsDevice(deviceName)
    THEN mountDone(objectivefsMount(deviceName, mountPoint, env, table),
                   mountPoint, env)
    ELSE IF isNfsDevice(deviceName)
    THEN mountDone(nfsMount(deviceName, mountPoint, env, table), mountPoint, env)
    ELSE mountDone(blockMount(deviceName, mountPoint, opts, env, table, disk_),
                   mountPoint, env)

\* types.DeviceFormatOpts, and what the host does to a Format call: how
\* reading the device fares and whether the mkfs command succeeds.
DeviceFormatOpts == [NewFSType : {"ext4", "xfs", "btrfs"}, OverwriteFS : BOOLEAN]

FormatEnvs == [io : IOs, mkfsOK : BOOLEAN]

\* mkfs.<fs> with its force flag on the device: the device then carries
\* that filesystem's signature and no other; a command that fails leaves
\* the device as it was.
mkfs(fs, device, env) ==
    IF env.mkfsOK
    THEN [err |-> "none", calls |-> <<"probeFsType", "mkfs." \o fs>>,
          device |-> Image(device.size, {fs})]
    ELSE [err |-> "FormatFailed", calls |-> <<"probeFsType", "mkfs." \o fs>>,
          device |-> device]

\* A faulty variant of osFormat: a filesystem is made whenever one was asked
\* for.
osFormatAlways(device, opts, env) ==
    LET p == probeFsType(device, env.io)
    IN  IF p.err \notin {"none", "UnknownFileSystem"}
        THEN [err |-> p.err, calls |-> <<"probeFsType">>, device |-> device]
        ELSE IF opts.NewFSType \in {"ext4", "xfs"}
        THEN mkfs(opts.NewFSType, device, env)
        ELSE [err |-> "UnsupportedFileSystem", calls |-> <<"probeFsType">>,
              device |-> device]

\* linux driver.Format: an error of the probe other than
\* errUnknownFileSystem ends the call; a filesystem is made when
\* opts.OverwriteFS is set or none was detected, of the type ext4 or xfs.
osFormat(device, opts, env) ==
    LET p == probeFsType(device, env.io)
    IN  IF p.err \notin {"none", "UnknownFileSystem"}
        THEN [err |-> p.err, calls |-> <<"probeFsType">>, device |-> device]
        ELSE IF opts.OverwriteFS \/ p.fsType = ""
        THEN IF opts.NewFSType \in {"ext4", "xfs"}
             THEN mkfs(opts.NewFSType, device, env)
             ELSE [err |-> "UnsupportedFileSystem", calls |-> <<"probeFsType">>,
                   device |-> device]
        ELSE [err |-> "none", calls |-> <<"probeFsType">>, device |-> device]

NoOsCall == [op |-> "none", deviceName |-> EmptyStr, mountPoint |-> EmptyStr,
             err |-> "none", rows |-> <<>>, calls |-> <<>>, child |-> NoChild,
             options |-> NoOptions, fsType |-> "", dir |-> NoDir,
             opts |-> [MountOptions |-> EmptyStr, MountLabel |-> EmptyStr],
             newFSType |-> "", overwrite |-> FALSE]

LinuxMounts ==
    /\ \E deviceName \in osDevices \cup {EmptyStr},
          mountPoint \in MountPoints \cup {EmptyStr}, tableOK \in BOOLEAN :
         LET r == osMounts(mountTable, tableOK, deviceName, mountPoint)
         IN  osLast' = [NoOsCall EXCEPT !.op = "Mounts",
                           !.deviceName = deviceName, !.mountPoint = mountPoint,
                           !.err = r.err, !.rows = r.rows,
                           !.calls = <<"getMounts">>]
    /\ UNCHANGED <<svcVars, taskVars, drvVars, execVars, mountTable, disk, osDevices>>

\* The host mounts nothing more once the table holds MaxMounts rows.  The
\* block device is the one device that is not a network or object device.
LinuxMount ==
    /\ Len(mountTable) < MaxMounts
    /\ \E deviceName \in osDevices, mountPoint \in MountPoints :
         \E opts \in MountOptsOf(deviceName), env \in MountEnvsOf(deviceName) :
            \E r \in {osMount(deviceName, mountPoint, opts, env, mountTable, disk)} :
                /\ osLast' = [NoOsCall EXCEPT !.op = "Mount",
                                 !.deviceName = deviceName,
                                 !.mountPoint = mountPoint, !.err = r.err,
                                 !.calls = r.calls, !.child = r.child,
                                 !.options = r.options, !.dir = r.dir,
                                 !.opts = opts, !.fsType = r.fsType]
                /\ mountTable' = r.table
    /\ UNCHANGED <<svcVars, taskVars, drvVars, execVars, disk, osDevices>>

\* linux driver.Unmount: unmount(mountPoint) takes the newest mount of the
\* mount point away, and fails when there is none.
LinuxUnmount ==
    /\ \E mountPoint \in MountPoints :
         LET at == {i \in 1..Len(mountTable) :
                       mountTable[i].MountPoint = mountPoint}
             top == CHOOSE i \in at : \A j \in at : j <= i
         IN  /\ osLast' = [NoOsCall EXCEPT !.op = "Unmount",
                              !.mountPoint = mountPoint,
                              !.err = IF at = {} THEN "UnmountFailed" ELSE "none",
                              !.calls = <<"unmount">>]
             /\ mountTable' =
                   IF at = {} THEN mountTable
                   ELSE SubSeq(mountTable, 1, top - 1)
                           \o SubSeq(mountTable, top + 1, Len(mountTable))
    /\ UNCHANGED <<svcVars, taskVars, drvVars, execVars, disk, osDevices>>

\* linux driver.Format of the block device.
LinuxFormat ==
    /\ BlockDevice \in osDevices
    /\ \E opts \in DeviceFormatOpts, env \in FormatEnvs :
         LET r == osFormat(disk, opts, env)
         IN  /\ osLast' = [NoOsCall EXCEPT !.op = "Format",
                              !.deviceName = BlockDevice, !.err = r.err,
                              !.calls = r.calls, !.newFSType = opts.NewFSType,
                              !.overwrite = opts.OverwriteFS]
             /\ disk' = r.device
    /\ UNCHANGED <<svcVars, taskVars, drvVars, execVars, mountTable, osDevices>>

\* No OS driver call is made.
OsIdle ==
    /\ mountTable = <<>>
    /\ disk = Image(0, {})
    /\ osDevices = {}
    /\ osLast = NoOsCall

\* ---- the executors' mount table (efs and glusterfs executors)

\* The rows /proc/self/mountinfo may hold at most.
MaxRows == 2

\* The lines a mount table is made of.  Rows of the grammar: Example, the
\* row of the parser's test, with one optional field; Nfs, without optional
\* fields; NfsAgain, the same source at another mount point.  Other lines:
\* BadID, whose ID is no number; Short, which ends before its eighth field;
\* NoSeparator, without the separator; FewFields, with two fields after the
\* separator.
Rows ==
    [ \* 36 35 98:0 /mnt1 /mnt2 rw,noatime master:1 - ext3 /dev/root rw,errors=continue
     Example |->
       <<"3", "6", " ", "3", "5", " ", "9", "8", ":", "0", " ", "/", "m", "n",
       "t", "1", " ", "/", "m", "n", "t", "2", " ", "r", "w", ",", "n", "o",
       "a", "t", "i", "m", "e", " ", "m", "a", "s", "t", "e", "r", ":", "1",
       " ", "-", " ", "e", "x", "t", "3", " ", "/", "d", "e", "v", "/", "r",
       "o", "o", "t", " ", "r", "w", ",", "e", "r", "r", "o", "r", "s", "=",
       "c", "o", "n", "t", "i", "n", "u", "e">>,
     \* 1 2 3:4 / /m rw - nfs h:/e rw
     Nfs |->
       <<"1", " ", "2", " ", "3", ":", "4", " ", "/", " ", "/", "m", " ", "r",
       "w", " ", "-", " ", "n", "f", "s", " ", "h", ":", "/", "e", " ", "r",
       "w">>,
     \* 5 2 3:6 / /n rw - nfs h:/e rw
     NfsAgain |->
       <<"5", " ", "2", " ", "3", ":", "6", " ", "/", " ", "/", "n", " ", "r",
       "w", " ", "-", " ", "n", "f", "s", " ", "h", ":", "/", "e", " ", "r",
       "w">>,
     \* x 2 3:4 / /m rw - nfs h:/e rw
     BadID |->
       <<"x", " ", "2", " ", "3", ":", "4", " ", "/", " ", "/", "m", " ", "r",
       "w", " ", "-", " ", "n", "f", "s", " ", "h", ":", "/", "e", " ", "r",
       "w">>,
     \* 1 2 3:4 / /m
     Short |->
       <<"1", " ", "2", " ", "3", ":", "4", " ", "/", " ", "/", "m">>,
     \* 1 2 3:4 / /m rw o nfs h:/e rw
     NoSeparator |->
       <<"1", " ", "2", " ", "3", ":", "4", " ", "/", " ", "/", "m", " ", "r",
       "w", " ", "o", " ", "n", "f", "s", " ", "h", ":", "/", "e", " ", "r",
       "w">>,
     \* 1 2 3:4 / /m rw - nfs h:/e
     FewFields |->
       <<"1", " ", "2", " ", "3", ":", "4", " ", "/", " ", "/", "m", " ", "r",
       "w", " ", "-", " ", "n", "f", "s", " ", "h", ":", "/", "e">>]

WellFormedRows == {Rows.Example, Rows.Nfs, Rows.NfsAgain}
MalformedRows == {Rows.BadID, Rows.Short, Rows.NoSeparator, Rows.FewFields}

\* The texts of /proc/self/mountinfo, a sequence of lines.
InfoFiles ==
    UNION {[1..n -> WellFormedRows \cup MalformedRows] : n \in 0..MaxRows}

\* strings.Fields: the maximal runs of characters that are not spaces.
RECURSIVE Fields(_)
Fields(text) ==
    IF text = <<>> THEN <<>>
    ELSE IF Head(text) = " " THEN Fields(Tail(text))
    ELSE LET stops == {i \in 1..Len(text) : text[i] = " "}
             end == IF stops = {} THEN Len(text)
                    ELSE (CHOOSE i \in stops : \A j \in stops : i <= j) - 1
         IN  <<SubSeq(text, 1, end)>> \o Fields(SubSeq(text, end + 1, Len(text)))

\* strings.Index: the offset of the first occurrence of sub in text, -1
\* when there is none.
Index(text, sub) ==
    LET at == {i \in 1..(Len(text) - Len(sub) + 1) :
                  SubSeq(text, i, i + Len(sub) - 1) = sub}
    IN  IF at = {} THEN -1 ELSE (CHOOSE i \in at : \A j \in at : i <= j) - 1

\* What %d accepts: digits.
IsInt(token) ==
    /\ token # <<>>
    /\ \A i \in 1..Len(token) :
          token[i] \in {"0", "1", "2", "3", "4", "5", "6", "7", "8", "9"}

\* What %d:%d accepts: digits, a colon, digits.
IsIntPair(token) ==
    \E i \in 1..Len(token) :
        /\ token[i] = ":"
        /\ IsInt(SubSeq(token, 1, i - 1))
        /\ IsInt(SubSeq(token, i + 1, Len(token)))

\* fmt.Sscanf(text, mountinfoFormat, ...) of a line whose fields are set
\* apart by spaces: the first seven fields are scanned, the third as two
\* numbers; a field that is missing or no number is an error.
Sscanf(text) ==
    LET f == Fields(text)
    IN  IF Len(f) >= 7 /\ IsInt(f[1]) /\ IsInt(f[2]) /\ IsIntPair(f[3])
        THEN [ok |-> TRUE, Root |-> f[4], MountPoint |-> f[5], Opts |-> f[6],
              optionalFields |-> f[7]]
        ELSE [ok |-> FALSE, Root |-> <<>>, MountPoint |-> <<>>, Opts |-> <<>>,
              optionalFields |-> <<>>]

\* strings.Join(fields, " ")
RECURSIVE Join(_)
Join(fields) ==
    IF fields = <<>> THEN <<>>
    ELSE IF Len(fields) = 1 THEN fields[1]
    ELSE fields[1] \o <<" ">> \o Join(Tail(fields))

NoMountInfo == [MountPoint |-> <<>>, Optional |-> <<>>, FSType |-> <<>>,
                Source |-> <<>>, VFSOpts |-> <<>>]

\* A faulty variant of parseRow: the first field after the separator is
\* taken for the source.
parseRowSourceFirst(text) ==
    LET sc == Sscanf(text)
        index == Index(text, <<" ", "-", " ">>)
        postSeparatorFields == Fields(SubSeq(text, index + 4, Len(text)))
    IN  IF ~sc.ok THEN [err |-> "ScanFailed", p |-> NoMountInfo]
        ELSE IF Len(postSeparatorFields) < 3
        THEN [err |-> "FewFields", p |-> NoMountInfo]
        ELSE [err |-> "none",
              p |-> [MountPoint |-> sc.MountPoint,
                     Optional |-> IF sc.optionalFields # <<"-">>
                                  THEN sc.optionalFields ELSE <<>>,
                     FSType |-> postSeparatorFields[2],
                     Source |-> postSeparatorFields[1],
                     VFSOpts |-> Join(SubSeq(postSeparatorFields, 3,
                                             Len(postSeparatorFields)))]]

\* The body of parseInfoFile's loop: the line is scanned, the fields after
\* text[index+3:] are split, fewer than three are an error.
parseRow(text) ==
    LET sc == Sscanf(text)
        index == Index(text, <<" ", "-", " ">>)
        postSeparatorFields == Fields(SubSeq(text, index + 4, Len(text)))
    IN  IF ~sc.ok THEN [err |-> "ScanFailed", p |-> NoMountInfo]
        ELSE IF Len(postSeparatorFields) < 3
        THEN [err |-> "FewFields", p |-> NoMountInfo]
        ELSE [err |-> "none",
              p |-> [MountPoint |-> sc.MountPoint,
                     Optional |-> IF sc.optionalFields # <<"-">>
                                  THEN sc.optionalFields ELSE <<>>,
                     FSType |-> postSeparatorFields[1],
                     Source |-> postSeparatorFields[2],
                     VFSOpts |-> Join(SubSeq(postSeparatorFields, 3,
                                             Len(postSeparatorFields)))]]

\* parseInfoFile: the lines are parsed in their order; the first that fails
\* ends the call with its error and nil.
RECURSIVE parseInfoFile(_)
parseInfoFile(lines) ==
    IF lines = <<>> THEN [err |-> "none", out |-> <<>>]
    ELSE LET r == parseRow(Head(lines))
             rest == parseInfoFile(Tail(lines))
         IN  IF r.err # "none" THEN [err |-> r.err, out |-> <<>>]
             ELSE IF rest.err # "none" THEN rest
             ELSE [err |-> "none", out |-> <<r.p>> \o rest.out]

\* parseMountTable: os.Open of /proc/self/mountinfo, then parseInfoFile.
parseMountTable(lines, openOK) ==
    IF ~openOK THEN [err |-> "OpenError", out |-> <<>>]
    ELSE parseInfoFile(lines)

\* idmnt after the loop over the first n rows: idmnt[mt.Source] =
\* mt.MountPoint, a later row replacing what an earlier one has put.
RECURSIVE idmnt(_, _)
idmnt(mtt, n) ==
    IF n = 0 THEN <<>>
    ELSE LET before == idmnt(mtt, n - 1)
             keys == (DOMAIN before) \cup {mtt[n].Source}
         IN  [k \in keys |-> IF k = mtt[n].Source THEN mtt[n].MountPoint
                             ELSE before[k]]

\* executor driver.LocalDevices
LocalDevices(lines, openOK) ==
    LET r == parseMountTable(lines, openOK)
    IN  IF r.err # "none"
        THEN [err |-> r.err, mtt |-> <<>>, nil |-> TRUE, DeviceMap |-> <<>>]
        ELSE [err |-> "none", mtt |-> r.out, nil |-> FALSE,
              DeviceMap |-> idmnt(r.out, Len(r.out))]

NoExecCall == [op |-> "none", err |-> "none", mtt |-> <<>>, nil |-> TRUE,
               DeviceMap |-> <<>>]

ExecutorLocalDevices ==
    /\ \E openOK \in BOOLEAN :
         LET r == LocalDevices(mountinfo, openOK)
         IN  execLast' = [op |-> "LocalDevices", err |-> r.err, mtt |-> r.mtt,
                          nil |-> r.nil, DeviceMap |-> r.DeviceMap]
    /\ UNCHANGED <<svcVars, taskVars, drvVars, mountTable, osLast, disk,
                   osDevices, mountinfo>>

\* No executor call is made.
ExecIdle ==
    /\ mountinfo = <<>>
    /\ execLast = NoExecCall

\* ---- the drivers' specification

\* No driver call is made while the service's queue is under examination.
DriversIdle ==
    /\ drv = "none"
    /\ gfsVolumes = {}
    /\ ofsFileSystems = {}
    /\ efsFileSystems = {}
    /\ efsMountTargets = {}
    /\ s3Buckets = {}
    /\ ofsObjects = {}
    /\ rmPc = "idle"
    /\ rmVolume = EmptyStr
    /\ rmTruncated = FALSE
    /\ rmDeletables = {}
    /\ rmListCalls = 0
    /\ last = NoCall
    /\ OsIdle
    /\ ExecIdle

Init ==
    /\ svcPhase = "new"
    /\ svcConfig = [k \in {ConfigKeys[i] : i \in 1..Len(ConfigKeys)} |-> ""]
    /\ svcDriver = NoDriver
    /\ svcErr = "none"
    /\ lookupName = ""
    /\ registryLookups = 0
    /\ driverInits = 0
    /\ queueMade = FALSE
    /\ sendq = <<>>
    /\ consumerPc = "none"
    /\ cur = 0
    /\ nSubmitted = 0
    /\ taskState = [t \in TaskIDs |-> "none"]
    /\ handoff = [t \in TaskIDs |-> "none"]
    /\ runs = [t \in TaskIDs |-> 0]
    /\ startOrder = <<>>
    /\ nAtRecv = 0
    /\ DriversIdle

Next ==
    \/ ServiceInit
    \/ TaskExecute
    \/ \E t \in TaskIDs : HandoffSend(t)
    \/ ConsumerRecv
    \/ ConsumerNext

Spec == Init /\ [][Next]_vars

\* Fair scheduling of the goroutines: every hand-off goroutine gets to its
\* send, the consumer gets to its receive, and every runFunc terminates.
FairSpec ==
    /\ Spec
    /\ \A t \in TaskIDs : WF_vars(HandoffSend(t))
    /\ WF_vars(ConsumerRecv)
    /\ WF_vars(ConsumerNext)

\* A driver of one variant, just initialised (d.volumes is an empty map),
\* with an empty backend; its service is not exercised.
DriverInit ==
    /\ drv \in Drivers
    /\ gfsVolumes = {}
    /\ ofsFileSystems = {}
    /\ efsFileSystems = {}
    /\ efsMountTargets = {}
    /\ s3Buckets = {}
    /\ ofsObjects = {}
    /\ rmPc = "idle"
    /\ rmVolume = EmptyStr
    /\ rmTruncated = FALSE
    /\ rmDeletables = {}
    /\ rmListCalls = 0
    /\ last = NoCall
    /\ OsIdle
    /\ ExecIdle
    /\ svcPhase = "new"
    /\ svcConfig = [k \in {ConfigKeys[i] : i \in 1..Len(ConfigKeys)} |-> ""]
    /\ svcDriver = NoDriver
    /\ svcErr = "none"
    /\ lookupName = ""
    /\ registryLookups = 0
    /\ driverInits = 0
    /\ queueMade = FALSE
    /\ sendq = <<>>
    /\ consumerPc = "none"
    /\ cur = 0
    /\ nSubmitted = 0
    /\ taskState = [t \in TaskIDs |-> "none"]
    /\ handoff = [t \in TaskIDs |-> "none"]
    /\ runs = [t \in TaskIDs |-> 0]
    /\ startOrder = <<>>
    /\ nAtRecv = 0

DriverNext ==
    \/ GlusterfsVolumeInspect
    \/ GlusterfsVolumeCreate
    \/ ObjectivefsVolumeInspect
    \/ ObjectivefsVolumeCreate
    \/ ObjectivefsWrite
    \/ ObjectivefsVolumeRemove
    \/ ObjectivefsRemoveListAgain
    \/ ObjectivefsRemoveFinish
    \/ EfsVolumeInspect
    \/ EfsVolumeCreate
    \/ EfsVolumeRemove
    \/ EfsVolumeAttach
    \/ S3fsVolumeInspect
    \/ S3fsVolumeCreate
    \/ SnapshotOperation

DriverSpec == DriverInit /\ [][DriverNext]_vars

\* Neither the service nor a storage driver is exercised.
OsOnly ==
    /\ drv = "none"
    /\ gfsVolumes = {}
    /\ ofsFileSystems = {}
    /\ efsFileSystems = {}
    /\ efsMountTargets = {}
    /\ s3Buckets = {}
    /\ ofsObjects = {}
    /\ rmPc = "idle"
    /\ rmVolume = EmptyStr
    /\ rmTruncated = FALSE
    /\ rmDeletables = {}
    /\ rmListCalls = 0
    /\ last = NoCall
    /\ svcPhase = "new"
    /\ svcConfig = [k \in {ConfigKeys[i] : i \in 1..Len(ConfigKeys)} |-> ""]
    /\ svcDriver = NoDriver
    /\ svcErr = "none"
    /\ lookupName = ""
    /\ registryLookups = 0
    /\ driverInits = 0
    /\ queueMade = FALSE
    /\ sendq = <<>>
    /\ consumerPc = "none"
    /\ cur = 0
    /\ nSubmitted = 0
    /\ taskState = [t \in TaskIDs |-> "none"]
    /\ handoff = [t \in TaskIDs |-> "none"]
    /\ runs = [t \in TaskIDs |-> 0]
    /\ startOrder = <<>>
    /\ nAtRecv = 0

\* The OS driver of a host on which nothing is mounted yet, whose callers
\* name devices of every kind and whose block device carries ext4.
OsInit ==
    /\ mountTable = <<>>
    /\ osLast = NoOsCall
    /\ disk = Image(maxLen, {"ext4"})
    /\ osDevices = Devices
    /\ ExecIdle
    /\ OsOnly

OsNext ==
    \/ LinuxMounts
    \/ LinuxMount
    \/ LinuxUnmount

OsSpec == OsInit /\ [][OsNext]_vars

\* The OS driver of a host on which nothing is mounted yet, whose callers
\* name its block device alone; the device is any of Disks.
BlockInit ==
    /\ mountTable = <<>>
    /\ osLast = NoOsCall
    /\ disk \in Disks
    /\ osDevices = {BlockDevice}
    /\ ExecIdle
    /\ OsOnly

BlockNext ==
    \/ LinuxMounts
    \/ LinuxMount
    \/ LinuxUnmount
    \/ LinuxFormat

BlockSpec == BlockInit /\ [][BlockNext]_vars

\* An executor on a host whose /proc/self/mountinfo is any of InfoFiles;
\* the OS driver is not exercised.
ExecInit ==
    /\ mountinfo \in InfoFiles
    /\ execLast = NoExecCall
    /\ OsIdle
    /\ OsOnly

ExecNext == ExecutorLocalDevices

ExecSpec == ExecInit /\ [][ExecNext]_vars

\* The goroutine that executes a VolumeRemove keeps running.
FairDriverSpec ==
    /\ DriverSpec
    /\ WF_vars(ObjectivefsRemoveListAgain)
    /\ WF_vars(ObjectivefsRemoveFinish)

\* ------------------------------------------------------------------ claims

Finished == {"success", "error"}

\* C1: tasks submitted to one service start in submission order: the k-th
\* runFunc the consumer starts is that of the k-th TaskExecute call.
C1_StartsInSubmissionOrder ==
    \A i \in 1..Len(startOrder) : startOrder[i] = i

\* C2: on one service at most one task's runFunc is executing at any moment.
C2_OneRunFuncAtATime ==
    Cardinality({t \in TaskIDs : taskState[t] = "running"}) <= 1

\* A task is running while another, submitted concurrently, waits in the send.
C2_Witness ==
    \E t, u \in TaskIDs :
        /\ taskState[t] = "running"
        /\ handoff[u] = "blocked"
        /\ u > nAtRecv

\* C3: TaskExecute never waits for the consumer: once Init has returned, a
\* call can complete in every state, whatever the consumer is doing and
\* however many earlier submissions are pending.
C3_TaskExecuteNeverBlocks ==
    (svcPhase # "new" /\ nSubmitted < MaxTasks) => ENABLED TaskExecute

\* A handle was returned while the consumer was inside execTask, and the
\* consumer is still there with an earlier submission pending.
C3_Witness ==
    \E t \in (nAtRecv + 1)..nSubmitted :
        /\ consumerPc = "exec"
        /\ sendq # <<>>
        /\ handoff[t] = "spawned"
        /\ taskState[t] = "queued"

\* C4: a failing runFunc is recorded on its own task only and does not stop
\* the consumer: every task still queued once some task has failed is
\* executed.
C4_FailureDoesNotStopConsumer ==
    /\ [][\A t \in TaskIDs :
            (taskState[t] # "error" /\ taskState'[t] = "error")
                => /\ t = cur
                   /\ \A u \in TaskIDs \ {t} : taskState'[u] = taskState[u]]_vars
    /\ [](svcPhase = "ready" => consumerPc \in {"recv", "exec"})
    /\ \A t \in TaskIDs :
         (/\ svcPhase = "ready"
          /\ taskState[t] = "queued"
          /\ \E f \in TaskIDs : taskState[f] = "error")
            ~> (taskState[t] \in Finished)

\* A task failed and a task started after it has been executed.
C4_Witness ==
    \E i, j \in 1..Len(startOrder) :
        /\ i < j
        /\ taskState[startOrder[i]] = "error"
        /\ taskState[startOrder[j]] = "success"

\* C5: under fair scheduling every task submitted to an initialised service
\* is eventually executed, and no task's runFunc is started twice.
C5_EveryTaskRunsExactlyOnce ==
    \A t \in TaskIDs :
        /\ [](runs[t] <= 1)
        /\ (svcPhase = "ready" /\ handoff[t] # "none")
              ~> (runs[t] = 1 /\ taskState[t] \in Finished)

\* Every task was submitted and each has been executed once, though not in
\* submission order.
C5_Witness ==
    /\ nSubmitted = MaxTasks
    /\ \A t \in TaskIDs : runs[t] = 1 /\ taskState[t] \in Finished
    /\ Len(startOrder) = MaxTasks
    /\ startOrder[1] # 1

\* C6: when the registry lookup or the driver's Init fails, Init returns the
\* error and the service has no driver, no queue and no consumer (so no task
\* ever runs); a consumer exists only after driver.Init succeeded.
C6_FailedInitLeavesNothing ==
    /\ svcErr \in {"DriverNotFound", "DriverInitFailed"}
         => /\ svcPhase = "failed"
            /\ svcDriver = NoDriver
            /\ ~queueMade
            /\ consumerPc = "none"
            /\ \A t \in TaskIDs : runs[t] = 0
    /\ (queueMade \/ consumerPc # "none")
         => /\ svcErr = "none"
            /\ driverInits = 1
            /\ svcDriver = lookupName

\* The driver's Init failed and a task submitted afterwards is stuck.
C6_Witness ==
    /\ svcErr = "DriverInitFailed"
    /\ driverInits = 1
    /\ \E t \in TaskIDs : handoff[t] = "stuck"

\* The first non-empty string of a sequence, "" when there is none.
FirstNonEmpty(seq) ==
    IF \A i \in 1..Len(seq) : seq[i] = "" THEN ""
    ELSE seq[CHOOSE i \in 1..Len(seq) :
                 seq[i] # "" /\ \A j \in 1..(i - 1) : seq[j] = ""]

\* C7: the driver name is the first non-empty value of the keys driver,
\* libstorage.driver, libstorage.storage.driver; when all are empty Init
\* fails with the missing-name error and the registry is not consulted.
C7_DriverNameResolution ==
    svcPhase # "new" =>
        LET want == FirstNonEmpty([i \in 1..Len(ConfigKeys) |->
                                      GetString(svcConfig, ConfigKeys[i])])
        IN  IF want = ""
            THEN /\ svcErr = "MissingDriverName"
                 /\ registryLookups = 0
                 /\ driverInits = 0
                 /\ svcDriver = NoDriver
            ELSE /\ lookupName = want
                 /\ registryLookups = 1
                 /\ svcErr # "MissingDriverName"

\* The first key is empty and the second wins over a different third.
C7_Witness ==
    /\ svcPhase = "ready"
    /\ svcConfig["driver"] = ""
    /\ svcConfig["libstorage.driver"] = "efs"
    /\ svcConfig["libstorage.storage.driver"] = "nosuch"
    /\ svcDriver = "efs"

\* The volume IDs that denote an existing volume of the driver variant.
ExistingIDs ==
    CASE drv = "glusterfs" -> gfsVolumes
      [] drv = "objectivefs" -> ofsFileSystems
      [] drv = "efs" -> {f.id : f \in efsFileSystems}
      [] drv = "s3fs" -> s3Buckets
      [] OTHER -> {}

\* C8: for every driver variant, VolumeInspect with an empty volume ID fails
\* with the missing-volume-ID error and issues no backend call, with or
\* without attachments.
C8_InspectEmptyIDRefused ==
    (last.op = "VolumeInspect" /\ last.arg = EmptyStr)
        => /\ last.err = "MissingVolumeID"
           /\ last.vol.nil
           /\ last.calls = <<>>

\* C9: for every driver variant, VolumeInspect of a non-empty ID that denotes
\* no existing volume fails with NotFound and returns no volume (calls in
\* which the backend itself failed are left aside).
C9_InspectUnknownIDNotFound ==
    (/\ last.op = "VolumeInspect"
     /\ last.arg # EmptyStr
     /\ last.arg \notin ExistingIDs
     /\ last.err # "BackendError")
        => /\ last.err = "NotFound"
           /\ last.vol.nil

\* C10: for every driver variant, VolumeCreate with an empty name fails with
\* the missing-volume-name error, issues no backend call and creates nothing.
C10_CreateEmptyNameRefused ==
    (last.op = "VolumeCreate" /\ last.arg = EmptyStr)
        => /\ last.err = "MissingVolumeName"
           /\ last.vol.nil
           /\ last.calls = <<>>
           /\ EmptyStr \notin gfsVolumes \cup ofsFileSystems \cup s3Buckets
           /\ \A f \in efsFileSystems : f.token # EmptyStr

\* VolumeInspect of the driver variant in the present state of its backend,
\* without attachments and with every backend call succeeding.
InspectNow(volumeID) ==
    CASE drv = "glusterfs" -> gfsVolumeInspect(NoLocalDevices, volumeID, FALSE)
      [] drv = "objectivefs" -> ofsVolumeInspect(NoLocalDevices, volumeID, FALSE)
      [] drv = "efs" -> efsVolumeInspect(NoLocalDevices, volumeID, FALSE,
                                         efsFileSystems, efsMountTargets, 0, 0)
      [] drv = "s3fs" -> s3fsVolumeInspect(volumeID, FALSE, s3Buckets, 0, 0)
      [] OTHER -> Result("none", NilVolume, <<>>)

\* C11: for every driver variant and every non-empty name, after a
\* successful VolumeCreate(name) that returned the volume V, VolumeInspect of
\* V's ID succeeds and returns a volume with V's Name and ID.
C11_CreateThenInspect ==
    (last.op = "VolumeCreate" /\ last.arg # EmptyStr /\ last.err = "none")
        => LET r == InspectNow(last.vol.id)
           IN  /\ r.err = "none"
               /\ r.vol.name = last.vol.name
               /\ r.vol.id = last.vol.id

\* C12: in the glusterfs, EFS, objectivefs and s3fs drivers each of
\* Snapshots, SnapshotInspect, SnapshotCopy, SnapshotRemove,
\* VolumeCreateFromSnapshot, VolumeCopy and VolumeSnapshot fails with
\* NotImplemented; none returns an empty success.
C12_SnapshotOpsNotImplemented ==
    last.op \in SnapshotOps => last.err = "NotImplemented"

\* The mount targets of a filesystem in the subnet of an instance.
TargetsOf(fs, subnet, mts) == {m \in mts : m.fs = fs /\ m.subnet = subnet}

\* C13: EFS VolumeAttach is idempotent per instance: whatever calls were
\* made, a volume has at most one mount target in the subnet of an instance,
\* and a call creates a mount target only when the volume has none there.
C13_AttachIdempotent ==
    /\ [](\A fs \in EfsIDs, subnet \in Subnets :
            Cardinality(TargetsOf(fs, subnet, efsMountTargets)) <= 1)
    /\ [][\A m \in efsMountTargets' \ efsMountTargets :
              TargetsOf(m.fs, m.subnet, efsMountTargets) = {}]_vars

\* A second VolumeAttach from the one instance the volume is attached to
\* succeeded without creating a mount target.
C13_Witness ==
    /\ last.op = "VolumeAttach"
    /\ last.err = "none"
    /\ \A i \in 1..Len(last.calls) : last.calls[i] # "CreateMountTarget"
    /\ Len(last.vol.attachments.items) = 1
    /\ Cardinality({m \in efsMountTargets : m.fs = last.arg}) = 1

\* C14: objectivefs VolumeRemove drains the bucket in pages and then removes
\* it: whatever the number of pages of the bucket's listing, a VolumeRemove
\* whose backend calls all succeed returns, and when DeleteBucket is issued
\* every object of the bucket has been submitted for deletion.
C14_RemoveDrainsAndTerminates ==
    /\ (rmPc # "idle") ~> (rmPc = "idle")
    /\ [][(/\ rmPc = "loop"
            /\ rmPc' = "idle"
            /\ \E i \in 1..Len(last'.calls) : last'.calls[i] = "DeleteBucket")
              => ObjectsOf(rmVolume, ofsObjects) \subseteq rmDeletables]_vars

\* C15: in VolumeRemove of the objectivefs and EFS drivers the error of a
\* backend call ends the call: the failed call is the last one issued and
\* the error is returned, so the deletion of the bucket or filesystem is not
\* issued after a failed earlier call; success is returned only when no call
\* failed and the deletion was issued.
C15_RemoveAbortsOnError ==
    last.op = "VolumeRemove" =>
        /\ last.failed # 0 => /\ last.err = "BackendError"
                              /\ last.failed = Len(last.calls)
        /\ last.err = "none"
             => /\ last.failed = 0
                /\ last.calls[Len(last.calls)]
                      \in {"DeleteFileSystem", "WaitUntilBucketNotExists"}
                /\ last.arg \notin ExistingIDs

\* An EFS VolumeRemove stopped at its second DeleteMountTarget, which failed:
\* one mount target is gone, the other and the filesystem are still there.
C15_Witness ==
    /\ drv = "efs"
    /\ last.op = "VolumeRemove"
    /\ last.failed = 3
    /\ last.calls = <<"DescribeMountTargets", "DeleteMountTarget",
                      "DeleteMountTarget">>
    /\ last.arg \in ExistingIDs
    /\ Cardinality({m \in efsMountTargets : m.fs = last.arg}) = 1

\* C16: the status of every attachment a driver reports is derived from the
\* local device map of the call's context only: "Exported and Mounted" when
\* the attachment's device string is a key of the map, "Exported and
\* Unmounted" when the map is there and lacks it, "Exported" when the context
\* carries no map; and a call that reads an existing volume's attachments
\* does not fail for want of the map.
C16_StatusFromLocalDevices ==
    (last.op \in {"VolumeInspect", "VolumeAttach"} /\ drv # "s3fs") =>
        /\ \A i \in 1..Len(last.vol.attachments.items) :
              LET a == last.vol.attachments.items[i]
              IN  a.status =
                     IF ~last.ld.ok THEN "Exported"
                     ELSE IF a.deviceName \in last.ld.DeviceMap
                     THEN "Exported and Mounted"
                     ELSE "Exported and Unmounted"
        /\ (/\ ~last.ld.ok
            /\ last.op = "VolumeInspect"
            /\ last.attachments
            /\ last.arg # EmptyStr
            /\ drv = "efs" => /\ last.arg \in ExistingIDs
                              /\ last.err \notin {"BackendError", "panic"})
              => last.err = "none"

\* An EFS volume has a mount target whose device is mounted on the host and
\* one whose device is not.
C16_Witness ==
    /\ drv = "efs"
    /\ last.op = "VolumeInspect"
    /\ last.err = "none"
    /\ last.ld.ok
    /\ \E i, j \in 1..Len(last.vol.attachments.items) :
          /\ last.vol.attachments.items[i].status = "Exported and Mounted"
          /\ last.vol.attachments.items[j].status = "Exported and Unmounted"

\* C17: for every driver the Attachments of the volume VolumeInspect returns
\* are nil exactly when attachments were not requested: not requested, they
\* are nil and no attachment lookup is made; requested, they are a sequence
\* that is not nil, empty when the volume has no attachment.
C17_AttachmentsNilIffNotRequested ==
    (last.op = "VolumeInspect" /\ last.err = "none") =>
        IF last.attachments
        THEN ~last.vol.attachments.nil
        ELSE /\ last.vol.attachments.nil
             /\ \A i \in 1..Len(last.calls) :
                   last.calls[i] # "DescribeMountTargets"

\* The instance ID InstanceInspect gives in the single-mount drivers:
\* d.mockID() in glusterfs, d.region() in objectivefs.
InstanceInspect(driver) ==
    IF driver = "glusterfs" THEN <<"an-unused-id">> ELSE ofsRegion

\* C18: in the glusterfs and objectivefs drivers, whenever attachments are
\* requested for a volume with a non-empty ID, whatever the local device map,
\* the result holds exactly one attachment: of that volume and of the
\* driver's instance, with the backend device string (the formatter applied
\* to the ID, or s3:// and the ID), which is not empty, as DeviceName.
C18_SingleMountOneAttachment ==
    (/\ drv \in {"glusterfs", "objectivefs"}
     /\ last.op = "VolumeInspect"
     /\ last.attachments
     /\ last.arg # EmptyStr)
        => /\ last.err = "none"
           /\ ~last.vol.attachments.nil
           /\ Len(last.vol.attachments.items) = 1
           /\ LET a == last.vol.attachments.items[1]
              IN  /\ a.volumeID = last.arg
                  /\ a.instanceID = InstanceInspect(drv)
                  /\ a.deviceName # EmptyStr
                  /\ a.deviceName =
                        IF drv = "glusterfs"
                        THEN gfsFormatter.pre \o last.arg \o gfsFormatter.post
                        ELSE <<"s", "3", ":", "/", "/">> \o last.arg

\* An objectivefs volume is inspected with its attachments on a host where
\* its device is not mounted.
C18_Witness ==
    /\ drv = "objectivefs"
    /\ last.op = "VolumeInspect"
    /\ last.attachments
    /\ last.arg \in ofsFileSystems
    /\ last.ld.ok
    /\ last.ld.DeviceMap = {}
    /\ Len(last.vol.attachments.items) = 1
    /\ last.vol.attachments.items[1].status = "Exported and Unmounted"

PathSteps == {"objectivefsMount", "nfsMount", "probeFsType"}

\* C20: Mount looks at the device string first and takes exactly one path:
\* a device that contains s3:// takes the object-filesystem path, though it
\* contains a colon; one that contains a colon and not s3:// takes the
\* network path; any other one is probed, and the mount call is issued only
\* on that path, after the probe.
C20_MountClassifies ==
    osLast.op = "Mount" =>
        LET dev == osLast.deviceName
            steps == {i \in 1..Len(osLast.calls) : osLast.calls[i] \in PathSteps}
            hasS3 == \E i \in 1..(Len(dev) - 4) :
                        SubSeq(dev, i, i + 4) = <<"s", "3", ":", "/", "/">>
            hasColon == \E i \in 1..Len(dev) : dev[i] = ":"
        IN  /\ steps = {1}
            /\ osLast.calls[1] = IF hasS3 THEN "objectivefsMount"
                                 ELSE IF hasColon THEN "nfsMount"
                                 ELSE "probeFsType"
            /\ \A i \in 1..Len(osLast.calls) :
                  osLast.calls[i] = "mount()"
                     => (i = 2 /\ osLast.calls[1] = "probeFsType")

\* An object-filesystem device was mounted by the object-filesystem path.
C20_Witness ==
    /\ osLast.op = "Mount"
    /\ osLast.deviceName = <<"s", "3", ":", "/", "/", "b">>
    /\ osLast.err = "none"
    /\ osLast.calls[1] = "objectivefsMount"
    /\ \E i \in 1..Len(mountTable) :
          mountTable[i].Source = osLast.deviceName

\* C21: when Mount returns success, by any of its three paths, the data
\* directory mountPoint + linux.volume.rootpath exists and has the mode
\* linux.volume.filemode.
C21_DataDirectoryMade ==
    (osLast.op = "Mount" /\ osLast.err = "none") =>
        /\ osLast.dir.path = osLast.mountPoint \o volumeRootPath
        /\ osLast.dir.exists
        /\ osLast.dir.mode = fileModeMountPath

\* C22: on the object-filesystem path the passphrase reaches the child
\* process through its standard input alone, as the passphrase and one
\* newline: the arguments are mount -t objectivefs device target and the
\* child is given no environment of its own, which is the same for any two
\* passphrases; the child is started in a session of its own without a
\* controlling terminal; with an empty passphrase the call fails and no
\* child is run.
C22_PassphraseOnlyThroughStdin ==
    (osLast.op = "Mount" /\ osLast.calls[1] = "objectivefsMount") =>
        LET dev == osLast.deviceName
            mp == osLast.mountPoint
            c == osLast.child
        IN  /\ c.ran = (\E i \in 1..Len(osLast.calls) :
                           osLast.calls[i] = "mount -t objectivefs")
            /\ ~c.ran => osLast.err = "MissingLicense"
            /\ c.ran =>
                  /\ \E p \in Passphrases \ {EmptyStr} : c.stdin = p \o <<"\n">>
                  /\ c.args = <<"mount", "-t", "objectivefs", dev, mp>>
                  /\ c.env = <<>>
                  /\ c.setsid /\ ~c.setctty
                  /\ \A q \in Passphrases :
                        /\ objectivefsCommand(dev, mp, q).args = c.args
                        /\ objectivefsCommand(dev, mp, q).env = c.env

\* The mount command was run with the passphrase q on its standard input.
C22_Witness ==
    /\ osLast.op = "Mount"
    /\ osLast.calls[1] = "objectivefsMount"
    /\ osLast.err = "none"
    /\ osLast.child.ran
    /\ osLast.child.stdin = <<"q", "\n">>

\* C23: the object-filesystem mount reports success only when the mount
\* command exited with 0 and the lookup of the mount table that follows
\* shows the target mounted: a command that exits with 0 and leaves the
\* target out of the table, and a lookup that fails, are errors.  This
\* holds of the call made and of every call that may be made next.
C23_SuccessOnlyWhenMounted ==
    /\ (osLast.op = "Mount" /\ osLast.calls[1] = "objectivefsMount"
            /\ osLast.err = "none") =>
          /\ SubSeq(osLast.calls, 1, 3) =
                <<"objectivefsMount", "mount -t objectivefs", "mounted">>
          /\ \E i \in 1..Len(mountTable) :
                mountTable[i].MountPoint = osLast.mountPoint
    /\ \A mp \in MountPoints, env \in ObjectEnvs :
          LET dev == <<"s", "3", ":", "/", "/", "b">>
              r == objectivefsMount(dev, mp, env, mountTable)
              shown == \E i \in 1..Len(r.table) : r.table[i].MountPoint = mp
          IN  /\ r.err = "none" =>
                    env.passphrase # EmptyStr /\ env.cmdOK /\ env.tableOK /\ shown
              /\ (env.passphrase # EmptyStr /\ env.cmdOK /\ ~env.tableOK)
                    => r.err = "VerifyFailed"
              /\ (env.passphrase # EmptyStr /\ env.cmdOK /\ env.tableOK /\ ~shown)
                    => r.err = "NotMounted"

\* An object-filesystem mount has succeeded and its target is in the table.
C23_Witness ==
    /\ osLast.op = "Mount"
    /\ osLast.calls[1] = "objectivefsMount"
    /\ osLast.err = "none"
    /\ osLast.calls[3] = "mounted"
    /\ mountTable[Len(mountTable)].MountPoint = osLast.mountPoint

\* The errors of probeFsType that are not errUnknownFileSystem.
ProbeErrors == {"OpenError", "ReadError", "EOF", "DetectError"}

\* C24: Format of a device in which the probe detects a signature, with
\* opts.OverwriteFS false, runs no mkfs command, leaves the device as it is
\* and returns nil, whatever opts.NewFSType is; and a Format with
\* opts.OverwriteFS false that makes a filesystem starts from a device in
\* which the probe detects none and leaves one in which it detects one, so
\* that such calls make a filesystem at most once.
C24_FormatNoOpWhenFormatted ==
    /\ [][(/\ osLast'.op = "Format" /\ ~osLast'.overwrite
            /\ osLast'.err \notin ProbeErrors
            /\ probeFsType(disk, "ok").fsType # "")
              => /\ osLast'.calls = <<"probeFsType">>
                 /\ disk' = disk
                 /\ osLast'.err = "none"]_vars
    /\ [][(/\ osLast'.op = "Format" /\ ~osLast'.overwrite
            /\ Len(osLast'.calls) > 1 /\ osLast'.err = "none")
              => /\ probeFsType(disk, "ok").err = "UnknownFileSystem"
                 /\ probeFsType(disk', "ok").fsType = osLast'.newFSType]_vars

\* Format with OverwriteFS false and a type that is not supported has
\* returned nil on a device that carries a filesystem.
C24_Witness ==
    /\ osLast.op = "Format"
    /\ ~osLast.overwrite
    /\ osLast.newFSType = "btrfs"
    /\ osLast.err = "none"
    /\ osLast.calls = <<"probeFsType">>
    /\ probeFsType(disk, "ok").fsType = "xfs"

\* The device carries the magic of the i-th signature of probes at its
\* offset.
HasMagic(device, i) ==
    \A k \in 1..Len(probes[i].magic) :
        LET o == probes[i].offset + k - 1
        IN  o < device.size /\ o \in DOMAIN device.bytes
               /\ device.bytes[o] = probes[i].magic[k]

\* C25: the probe Mount makes of a block device that can be read and is as
\* large as the window: a device with XFSB at offset 0 is xfs; a device
\* that matches none of the signatures of probes gives
\* errUnknownFileSystem; the window is the largest offset + length of the
\* signatures.
C25_ProbeIdentifies ==
    (/\ osLast.op = "Mount" /\ osLast.calls[1] = "probeFsType"
     /\ osLast.err \notin {"OpenError", "ReadError"}
     /\ disk.size >= maxLen) =>
        /\ HasMagic(disk, 3) => osLast.fsType = "xfs"
        /\ (\A i \in 1..Len(probes) : ~HasMagic(disk, i)) =>
              osLast.fsType = "" /\ osLast.err = "UnknownFileSystem"
        /\ \A i \in 1..Len(probes) :
              probes[i].offset + Len(probes[i].magic) <= maxLen
        /\ \E i \in 1..Len(probes) :
              probes[i].offset + Len(probes[i].magic) = maxLen

\* C29: a device shorter than the window of the probe is reported neither
\* as a filesystem nor as errUnknownFileSystem: probeFsType returns an error
\* of reading or detecting, and Format of the device returns that error and
\* runs no mkfs command, with opts.OverwriteFS true as well.
C29_ShortDeviceIsAnError ==
    disk.size < maxLen =>
        /\ \A io \in IOs :
              /\ probeFsType(disk, io).fsType = ""
              /\ probeFsType(disk, io).err \in ProbeErrors
        /\ osLast.op = "Format" =>
              /\ osLast.err \in ProbeErrors
              /\ osLast.calls = <<"probeFsType">>

\* Format with OverwriteFS true of a device of four bytes has returned the
\* error of detecting.
C29_Witness ==
    /\ disk.size \in 1..(maxLen - 1)
    /\ osLast.op = "Format"
    /\ osLast.overwrite
    /\ osLast.err = "DetectError"

\* C30: on the block-device path the option string of the mount call
\* contains opts.MountOptions and opts.MountLabel whatever filesystem was
\* detected, and contains nouuid exactly when that is xfs; when the probe
\* fails or finds no filesystem Mount returns the probe's error and makes no
\* mount call.
C30_MountOptions ==
    (osLast.op = "Mount" /\ osLast.calls[1] = "probeFsType") =>
        LET called == \E i \in 1..Len(osLast.calls) : osLast.calls[i] = "mount()"
            fsType == osLast.fsType
        IN  /\ called =>
                  /\ Contains(osLast.options, osLast.opts.MountOptions)
                  /\ Contains(osLast.options, osLast.opts.MountLabel)
                  /\ Contains(osLast.options, nouuid) <=> fsType = "xfs"
            /\ ~called =>
                  osLast.err \in ProbeErrors \cup {"UnknownFileSystem"}
            /\ osLast.err \in ProbeErrors \cup {"UnknownFileSystem"} => ~called

\* The fields of a row of the grammar ID Parent Major:Minor Root MountPoint
\* Opts OptionalFields - FSType Source VFSOpts: its tokens by their place,
\* the optional field being the seventh token unless that is the hyphen.
RowTokens(text) ==
    LET f == Fields(text)
        sep == CHOOSE i \in 7..8 : f[i] = <<"-">>
    IN  [MountPoint |-> f[5],
         Optional |-> IF sep = 7 THEN <<>> ELSE f[7],
         FSType |-> f[sep + 1],
         Source |-> f[sep + 2]]

\* The rows of a table that LocalDevices has parsed agree with the tokens
\* of the lines, and the row of the parser's test gives ext3, /dev/root,
\* /mnt2 and master:1.
RowsAsTokens ==
    /\ Len(execLast.mtt) = Len(mountinfo)
    /\ \A i \in 1..Len(mountinfo) :
          LET p == execLast.mtt[i]
              t == RowTokens(mountinfo[i])
          IN  /\ p.MountPoint = t.MountPoint
              /\ p.Optional = t.Optional
              /\ p.FSType = t.FSType
              /\ p.Source = t.Source
              /\ mountinfo[i] = Rows.Example =>
                    /\ p.FSType = <<"e", "x", "t", "3">>
                    /\ p.Source = <<"/", "d", "e", "v", "/", "r", "o", "o", "t">>
                    /\ p.MountPoint = <<"/", "m", "n", "t", "2">>
                    /\ p.Optional = <<"m", "a", "s", "t", "e", "r", ":", "1">>

\* LocalDevices has read and parsed a table of rows of the grammar.
ParsedWellFormed ==
    /\ execLast.op = "LocalDevices"
    /\ execLast.err # "OpenError"
    /\ \A i \in 1..Len(mountinfo) : mountinfo[i] \in WellFormedRows

Malformed(text) ==
    LET f == Fields(text)
        index == Index(text, <<" ", "-", " ">>)
    IN  \/ ~(Len(f) >= 7 /\ IsInt(f[1]) /\ IsInt(f[2]) /\ IsIntPair(f[3]))
        \/ index = -1
        \/ Len(Fields(SubSeq(text, index + 4, Len(text)))) < 3

\* C27: when a row of the table is malformed, parseInfoFile returns an
\* error and no rows, and LocalDevices returns an error and no device map.
C27_AllOrNothing ==
    (/\ execLast.op = "LocalDevices"
     /\ \E i \in 1..Len(mountinfo) : Malformed(mountinfo[i])) =>
        /\ parseInfoFile(mountinfo).err # "none"
        /\ parseInfoFile(mountinfo).out = <<>>
        /\ execLast.err # "none"
        /\ execLast.mtt = <<>>
        /\ execLast.nil

\* C28: EFS names go through the tag and come back: the volume VolumeCreate
\* returns has the name it was given, and the volume VolumeInspect returns
\* has the name its filesystem was created with.
C28_EfsNamesRoundTrip ==
    drv = "efs" =>
        /\ (last.op = "VolumeCreate" /\ last.err = "none") =>
              last.vol.name = last.arg
        /\ (last.op = "VolumeInspect" /\ last.err = "none") =>
              \E f \in efsFileSystems :
                  f.id = last.arg /\ last.vol.name = f.token

====
